---- MODULE Spec2Model ----
(***************************************************************************)
(* Model of youtrack-gcal-sync: the SQLite binding store (sync/db.go) and  *)
(* the Synchronizer (sync/sync.go).  One run of Synchronizer.Sync is a     *)
(* sequence of steps; every store call and every remote call of a step may *)
(* fail.  Remote clients are the GCalClient / YTClient interfaces: their   *)
(* results are chosen by the environment.                                  *)
(*                                                                         *)
(* Time: integers counting hours since the Unix epoch.  Go's zero          *)
(* time.Time (year 1) is ZeroTime, earlier than every other instant.       *)
(* Text: a summary or description is a tuple of tokens, the empty text is  *)
(* << >> and fmt.Sprintf is tuple construction.  A *time.Time is << >>     *)
(* (nil) or <<t>>.                                                         *)
(***************************************************************************)
EXTENDS Integers, Sequences, FiniteSets, TLC

\* ---------------------------------------------------------------- bounds
\* MaxEvents bounds what the environment does over a behaviour: every delta
\* item it delivers (event, issue, deleted id), every error it makes a store or
\* remote call return, every tick of the clock and every FetchEvents answer
\* whose sync token is not DefaultToken counts as one event.
MaxEvents == 2
MaxInstant == 2    \* remote "updated" instants range over 1..MaxInstant

\* ------------------------------------------------------- program constants
Hour == 1
ZeroTime == 0 - 719162 * 24 * Hour
ThirtyDays == 30 * 24 * Hour
YouTrackProjectID == "yt-project"
YouTrackQueryProjectID == "yt-query-project"
CalendarID == "gcal-calendar"
BaseURL == "http://youtrack.example.com"

\* ------------------------------------------------------------ input sets
GCalIDs == {"g1", "g2"}
YTIDs == {"y1", "y2"}
Instants == 1..MaxInstant
Tokens == {"t1", "t2"}
DefaultToken == "t1"

NullString(s) == [String |-> s, Valid |-> TRUE]
NoString == [String |-> "", Valid |-> FALSE]
NullTime(t) == [Time |-> t, Valid |-> TRUE]
NoTime == [Time |-> ZeroTime, Valid |-> FALSE]

\* googlecalendar.Event: every version (id, updated) of an event has its own
\* summary and start; the html link is a function of the id.
Event(id, status, updated) ==
  [ID |-> id, Summary |-> <<"event", id, updated>>, HTMLLink |-> <<"link", id>>,
   Start |-> 10 * updated, Status |-> status, Updated |-> updated]

GCalEventSet == {Event(id, st, u) : id \in GCalIDs, st \in {"confirmed", "cancelled"}, u \in Instants}

\* youtrack.CustomField values: a JSON number decodes to float64, anything
\* else (here a string) does not.
Float64(v) == [type |-> "float64", val |-> v]
NotFloat64 == [type |-> "string", val |-> 0]
CustomField(name, value) == [Name |-> name, Value |-> value]

Issue(id, updated, cfs) ==
  [ID |-> id, Summary |-> <<"issue", id, updated>>, Updated |-> updated, CustomFields |-> cfs]

CustomFieldsSet(u) ==
  { << >>,
    << CustomField("Due Date", Float64(20 * u)) >>,
    << CustomField("Due Date", NotFloat64) >>,
    << CustomField("Priority", Float64(20 * u)) >> }

YTIssueSet == UNION {{Issue(id, u, cfs) : cfs \in CustomFieldsSet(u)} : id \in YTIDs, u \in Instants}

SeqsUpTo(S, n) == UNION {[1..k -> S] : k \in 0..n}

VARIABLES
  items,              \* table sync_items: set of SyncItem rows
  nextID,             \* the AUTOINCREMENT sequence of sync_items
  lastSync,           \* table last_sync: << >> (no row) or <<row 1>>
  now,                \* time.Now()
  pc,                 \* position of Synchronizer.Sync
  gcalSyncToken, ytLastSync,                         \* locals of Sync
  gcalEvents, newGCalSyncToken, ytIssues, ytDeletedIssueIDs,
  allDbItems,         \* local of handleDeletions
  idx,                \* index of the current loop
  err,                \* what the last Sync returned
  calls,              \* remote write calls issued by the current run, in order
  failed,             \* per-item errors logged by the current run, as <<phase, index>>
  visited,            \* <<phase, index>> of the loop iterations executed by the current run
  itemsAtStart, lastSyncAtStart,                     \* the store when the run started
  tokenWrites, watermarkWrites,                      \* cursor setter calls of the current run
  budget,             \* environment events left
  prev,               \* what an observer recorded of the run before the current one
  remote              \* the calendar and the issue tracker, where the model holds them

store == <<items, nextID, lastSync>>
locals == <<gcalSyncToken, ytLastSync, gcalEvents, newGCalSyncToken, ytIssues, ytDeletedIssueIDs, allDbItems, idx>>
history == <<calls, failed, visited, itemsAtStart, lastSyncAtStart, tokenWrites, watermarkWrites>>
vars == <<items, nextID, lastSync, now, pc, gcalSyncToken, ytLastSync, gcalEvents,
          newGCalSyncToken, ytIssues, ytDeletedIssueIDs, allDbItems, idx, err, calls,
          failed, visited, itemsAtStart, lastSyncAtStart, tokenWrites, watermarkWrites, budget,
          prev, remote>>
world == <<prev, remote>>

\* ------------------------------------------------------------- time.Time
IsZero(t) == t = ZeroTime
\* !u.Before(t) in place of t.After(u)
After_NotBefore(t, u) == t >= u
\* !t.Equal(u) in place of t.After(u)
After_NotEqual(t, u) == t # u
After(t, u) == t > u
\* time.Unix (seconds) in place of time.UnixMilli
UnixMilli_Seconds(ms) == ms * 1000
UnixMilli(ms) == ms

\* ------------------------------------------------------- store: sync_items
SyncItem(id, gcalID, ytID, gcalUpdatedAt, ytUpdatedAt) ==
  [ID |-> id, GCalID |-> gcalID, YTID |-> ytID, GCalUpdatedAt |-> gcalUpdatedAt, YTUpdatedAt |-> ytUpdatedAt]

\* WHERE yt_id = ? in the query of GetSyncItemByGCalID
GetSyncItemByGCalID_WrongColumn(tbl, gcalID) == {it \in tbl : it.YTID.Valid /\ it.YTID.String = gcalID}
\* The getters return the set of matching rows: {} is the nil *SyncItem.
GetSyncItemByGCalID(tbl, gcalID) == {it \in tbl : it.GCalID.Valid /\ it.GCalID.String = gcalID}
\* WHERE gcal_id = ? in the query of GetSyncItemByYTID
GetSyncItemByYTID_WrongColumn(tbl, ytID) == {it \in tbl : it.GCalID.Valid /\ it.GCalID.String = ytID}
GetSyncItemByYTID(tbl, ytID) == {it \in tbl : it.YTID.Valid /\ it.YTID.String = ytID}

\* rows in rowid order
RECURSIVE SortByID(_)
SortByID(tbl) ==
  IF tbl = {} THEN << >>
  ELSE LET first == CHOOSE it \in tbl : \A o \in tbl : it.ID <= o.ID
       IN <<first>> \o SortByID(tbl \ {first})

GetAllSyncItems(tbl) == SortByID(tbl)

\* a schema without the two UNIQUE constraints
UniqueConflict_None(tbl, item) == FALSE
\* UNIQUE(gcal_id), UNIQUE(yt_id): NULLs never conflict
UniqueConflict(tbl, item) ==
  \E o \in tbl : /\ o.ID # item.ID
                 /\ \/ (item.GCalID.Valid /\ o.GCalID.Valid /\ o.GCalID.String = item.GCalID.String)
                    \/ (item.YTID.Valid /\ o.YTID.Valid /\ o.YTID.String = item.YTID.String)

\* an INSERT that no constraint rejects
CreateSyncItemOK_Always(tbl, item) == TRUE
\* INSERT: the new table, or the old one when the constraint rejects the row
CreateSyncItemOK(tbl, item) == ~UniqueConflict(tbl, item)
\* an INSERT that binds neither id column
CreateSyncItem_NoIDs(tbl, id, item) ==
  tbl \cup {[item EXCEPT !.ID = id, !.GCalID = NoString, !.YTID = NoString]}
CreateSyncItem(tbl, id, item) == tbl \cup {[item EXCEPT !.ID = id]}

\* UPDATE ... WHERE id = ?: rewrites the four columns of the row with that id;
\* when no row has the id nothing is written and nothing can conflict
UpdateSyncItemOK(tbl, item) == (\E o \in tbl : o.ID = item.ID) => ~UniqueConflict(tbl, item)
\* an UPDATE that also resets yt_updated_at
UpdateSyncItem_ResetYT(tbl, item) ==
  {IF o.ID = item.ID THEN [item EXCEPT !.YTUpdatedAt = NoTime] ELSE o : o \in tbl}
UpdateSyncItem(tbl, item) == {IF o.ID = item.ID THEN item ELSE o : o \in tbl}

\* a DELETE that removes no row and reports no error
DeleteSyncItem_Noop(tbl, id) == tbl
\* DELETE FROM sync_items without the WHERE clause
DeleteSyncItem_NoWhere(tbl, id) == {}
\* DELETE ... WHERE id = ?
DeleteSyncItem(tbl, id) == {o \in tbl : o.ID # id}

\* -------------------------------------------------------- store: last_sync
Row(token, t) == [gcal_sync_token |-> token, yt_last_sync |-> t]

\* Scan of a NULL column into a string / time.Time is an error
GetGCalSyncTokenOK(ls) == IF ls = << >> THEN TRUE ELSE ls[1].gcal_sync_token.Valid
GetGCalSyncToken(ls) == IF ls = << >> THEN "" ELSE ls[1].gcal_sync_token.String

\* UPDATE last_sync SET gcal_sync_token = ? in place of INSERT OR REPLACE
SetGCalSyncToken_UpdateOnly(ls, token) ==
  IF ls = << >> THEN ls ELSE << [ls[1] EXCEPT !.gcal_sync_token = NullString(token)] >>
\* INSERT OR REPLACE INTO last_sync (id, gcal_sync_token): the row is replaced
SetGCalSyncToken(ls, token) == << Row(NullString(token), NoTime) >>

GetYTLastSyncOK(ls) == IF ls = << >> THEN TRUE ELSE ls[1].yt_last_sync.Valid
GetYTLastSync(ls) == IF ls = << >> THEN ZeroTime ELSE ls[1].yt_last_sync.Time

\* UPDATE, and INSERT (id, yt_last_sync) when no row was affected
SetYTLastSync(ls, t) ==
  IF ls # << >> THEN << [ls[1] EXCEPT !.yt_last_sync = NullTime(t)] >>
  ELSE << Row(NoString, NullTime(t)) >>

\* ------------------------------------------------ remote calls and results
\* A remote write call issued by the run.  target is the project / issue /
\* event the call addresses; start is the due date or start instant and end
\* the end instant, each << >> when nil or not an argument of the call;
\* ok tells whether the call returned without error and ret is what a
\* successful create returned, <<id, updated>>.
Call(op, target, summary, description, start, end, ok, ret) ==
  [op |-> op, target |-> target, summary |-> summary, description |-> description,
   start |-> start, end |-> end, ok |-> ok, ret |-> IF ok THEN ret ELSE << >>,
   phase |-> pc, idx |-> idx]

\* what CreateIssue returns: *youtrack.Issue
CreatedIssueSet == [ID : YTIDs, Updated : Instants]

\* what CreateEvent returns: *calendar.Event, Updated is an RFC3339 string
RFC3339(t) == <<"rfc3339", t>>
CreatedEventSet == [Id : GCalIDs, Updated : {RFC3339(t) : t \in Instants} \cup {<< >>}]

\* time.Parse with a layout the string never matches: the error is dropped
ParseRFC3339_WrongLayout(s) == ZeroTime
\* time.Parse(time.RFC3339, s) with the error dropped
ParseRFC3339(s) == IF Len(s) = 2 /\ s[1] = "rfc3339" THEN s[2] ELSE ZeroTime

\* t.Add(d)
Add(t, d) == t + d

\* sync.go 168-175: the last numeric "Due Date" custom field, else the zero time
RECURSIVE DueDateFrom(_, _)
DueDateFrom(cfs, acc) ==
  IF cfs = << >> THEN acc
  ELSE LET cf == Head(cfs)
       IN DueDateFrom(Tail(cfs),
                      IF cf.Name = "Due Date" /\ cf.Value.type = "float64"
                        THEN UnixMilli(cf.Value.val) ELSE acc)

\* the "Due Date" value taken without the cf.Value.(float64) test
DueDate_AnyValue(issue) ==
  LET cfs == issue.CustomFields
      ds == {i \in DOMAIN cfs : cfs[i].Name = "Due Date"}
  IN IF ds = {} THEN ZeroTime
     ELSE UnixMilli(cfs[CHOOSE i \in ds : \A j \in ds : j <= i].Value.val)
DueDate(issue) == DueDateFrom(issue.CustomFields, ZeroTime)

Description(issueID) == <<"YouTrack Issue: ", BaseURL, "/issue/", issueID>>

\* a map lookup that reports a cancelled event for an id the delta lacks
GCalEventMap_AbsentIsCancelled(events, id) ==
  LET is == {i \in 1..Len(events) : events[i].ID = id}
  IN IF is = {} THEN {Event(id, "cancelled", 1)}
     ELSE {events[CHOOSE i \in is : \A j \in is : j <= i]}
\* gcalEventMap of handleDeletions: the last event of the delta with that id
GCalEventMap(events, id) ==
  LET is == {i \in 1..Len(events) : events[i].ID = id}
  IN IF is = {} THEN {} ELSE {events[CHOOSE i \in is : \A j \in is : j <= i]}

\* --------------------------------------------------------------- Init
\* The store is a file that outlives the process (NewDB, CREATE TABLE IF NOT
\* EXISTS): the process starts on a fresh store, or on the store an earlier
\* process left after one run that saw the new event g1 (updated at 1),
\* created issue y1 for it and committed token t1 at instant 0.
FreshStore == [items |-> {}, nextID |-> 1, lastSync |-> << >>]

BoundStore ==
  [items |-> {SyncItem(1, NullString("g1"), NullString("y1"), NullTime(1), NullTime(UnixMilli(1)))},
   nextID |-> 2,
   lastSync |-> << Row(NullString(DefaultToken), NullTime(0)) >>]

\* no earlier run, and remote sides the model does not hold
NoRun == [n |-> 0]
NoRemote == [held |-> FALSE]

\* the program after NewSynchronizer, before the first call of Sync
InitProgram(stores, t) ==
  /\ \E s \in stores :
       /\ items = s.items
       /\ nextID = s.nextID
       /\ lastSync = s.lastSync
       /\ itemsAtStart = s.items
       /\ lastSyncAtStart = s.lastSync
  /\ now = t
  /\ pc = "idle"
  /\ gcalSyncToken = ""
  /\ ytLastSync = ZeroTime
  /\ gcalEvents = << >>
  /\ newGCalSyncToken = ""
  /\ ytIssues = << >>
  /\ ytDeletedIssueIDs = << >>
  /\ allDbItems = << >>
  /\ idx = 1
  /\ err = "none"
  /\ calls = << >>
  /\ failed = {}
  /\ visited = {}
  /\ tokenWrites = 0
  /\ watermarkWrites = 0

InitFrom(stores, t) ==
  /\ InitProgram(stores, t)
  /\ budget = MaxEvents
  /\ prev = NoRun
  /\ remote = NoRemote

Init == InitFrom({FreshStore, BoundStore}, 0)

\* Sync returns e
Return(e) ==
  /\ pc' = "idle"
  /\ err' = e

\* The environment makes the calls whose flag is FALSE fail.  A flag the step
\* does not consult is TRUE.
Cost(flags) == Cardinality({i \in DOMAIN flags : ~flags[i]})

Spend(n) ==
  /\ n <= budget
  /\ budget' = budget - n

Inject(flags) == Spend(Cost(flags))

\* time passes; the clock is read at the start and at the commit of a run only
Tick ==
  /\ pc \in {"idle", "commit"}
  /\ Spend(1)
  /\ now' = now + 1
  /\ UNCHANGED <<store, pc, locals, err, history>>
  /\ UNCHANGED world

\* Sync is entered: its locals are fresh, the observer starts a new record
StartRun ==
  /\ pc = "idle"
  /\ pc' = "loadCursors"
  /\ err' = "none"
  /\ gcalSyncToken' = ""
  /\ ytLastSync' = ZeroTime
  /\ gcalEvents' = << >>
  /\ newGCalSyncToken' = ""
  /\ ytIssues' = << >>
  /\ ytDeletedIssueIDs' = << >>
  /\ allDbItems' = << >>
  /\ idx' = 1
  /\ calls' = << >>
  /\ failed' = {}
  /\ visited' = {}
  /\ itemsAtStart' = items
  /\ lastSyncAtStart' = lastSync
  /\ tokenWrites' = 0
  /\ watermarkWrites' = 0
  /\ UNCHANGED <<store, now, budget>>

\* StartSyncLoop / main: the next call of Sync
SyncStart ==
  /\ StartRun
  /\ UNCHANGED world

\* Sync, lines 63-73
LoadCursors ==
  /\ pc = "loadCursors"
  /\ \E dbOK1, dbOK2 \in BOOLEAN :
       IF ~(dbOK1 /\ GetGCalSyncTokenOK(lastSync))
         THEN /\ Inject(<<dbOK1>>) /\ dbOK2
              /\ IF GetGCalSyncTokenOK(lastSync) THEN TRUE ELSE dbOK1
              /\ Return("failed to get Google Calendar sync token")
              /\ UNCHANGED <<gcalSyncToken, ytLastSync>>
       ELSE IF ~(dbOK2 /\ GetYTLastSyncOK(lastSync))
         THEN /\ Inject(<<dbOK2>>)
              /\ IF GetYTLastSyncOK(lastSync) THEN TRUE ELSE dbOK2
              /\ Return("failed to get YouTrack last sync time")
              /\ gcalSyncToken' = GetGCalSyncToken(lastSync)
              /\ UNCHANGED ytLastSync
       ELSE /\ gcalSyncToken' = GetGCalSyncToken(lastSync)
            /\ ytLastSync' = IF IsZero(GetYTLastSync(lastSync))
                               THEN now - ThirtyDays
                               ELSE GetYTLastSync(lastSync)
            /\ pc' = "fetchEvents"
            /\ dbOK1 /\ dbOK2
            /\ UNCHANGED <<err, budget>>
  /\ UNCHANGED <<store, now, gcalEvents, newGCalSyncToken, ytIssues, ytDeletedIssueIDs,
                 allDbItems, idx, history>>
  /\ UNCHANGED world

\* Sync, lines 75-78
FetchEvents ==
  /\ pc = "fetchEvents"
  /\ \/ /\ Inject(<<FALSE>>)
        /\ Return("failed to fetch Google Calendar events")
        /\ UNCHANGED <<gcalEvents, newGCalSyncToken>>
     \/ \E evs \in SeqsUpTo(GCalEventSet, budget), tok \in Tokens \cup {""} :
          /\ gcalEvents' = evs
          /\ newGCalSyncToken' = tok
          /\ Spend(Len(evs) + (IF tok = DefaultToken THEN 0 ELSE 1))
          /\ pc' = "getUpdatedIssues"
          /\ UNCHANGED err
  /\ UNCHANGED <<store, now, gcalSyncToken, ytLastSync, ytIssues, ytDeletedIssueIDs,
                 allDbItems, idx, history>>
  /\ UNCHANGED world

\* Sync, lines 79-82
GetUpdatedIssues ==
  /\ pc = "getUpdatedIssues"
  /\ \/ /\ Inject(<<FALSE>>)
        /\ Return("failed to fetch YouTrack issues")
        /\ UNCHANGED ytIssues
     \/ \E iss \in SeqsUpTo(YTIssueSet, budget) :
          /\ ytIssues' = iss
          /\ Spend(Len(iss))
          /\ pc' = "getDeletedIssueIDs"
          /\ UNCHANGED err
  /\ UNCHANGED <<store, now, gcalSyncToken, ytLastSync, gcalEvents, newGCalSyncToken,
                 ytDeletedIssueIDs, allDbItems, idx, history>>
  /\ UNCHANGED world

\* the cursor writes placed before the call of processYTDeletions
EnterYTDeletions_AfterCommit(ids) == "commit"
\* a for-range loop over an empty slice is skipped
EnterYTDeletions(ids) == IF ids # << >> THEN "processYTDeletions" ELSE "commit"
EnterDeletionsLoop(all, ids) == IF all # << >> THEN "handleDeletionsLoop" ELSE EnterYTDeletions(ids)
EnterYTissues(iss) == IF iss # << >> THEN "processYTissues" ELSE "handleDeletions"
\* processYTissues called in the place of processGCalEvents
EnterGCalEvents_IssuesFirst(evs, iss) ==
  IF iss # << >> THEN "processYTissues"
  ELSE IF evs # << >> THEN "processGCalEvents" ELSE "handleDeletions"
EnterGCalEvents(evs, iss) == IF evs # << >> THEN "processGCalEvents" ELSE EnterYTissues(iss)

\* SetYTLastSync deferred at the top of Sync: it runs on the error return too
GetDeletedIssueIDs_DeferredWatermark ==
  /\ pc = "getDeletedIssueIDs"
  /\ \/ /\ Inject(<<FALSE>>)
        /\ Return("failed to fetch deleted YouTrack issue IDs")
        /\ lastSync' = SetYTLastSync(lastSync, now)
        /\ UNCHANGED <<ytDeletedIssueIDs, items, nextID>>
     \/ \E ids \in SeqsUpTo(YTIDs, budget) :
          /\ ytDeletedIssueIDs' = ids
          /\ Spend(Len(ids))
          /\ pc' = EnterGCalEvents(gcalEvents, ytIssues)
          /\ UNCHANGED <<err, store>>
  /\ UNCHANGED <<now, gcalSyncToken, ytLastSync, gcalEvents, newGCalSyncToken,
                 ytIssues, allDbItems, idx, history>>
  /\ UNCHANGED world

\* Sync, lines 83-86
GetDeletedIssueIDs ==
  /\ pc = "getDeletedIssueIDs"
  /\ \/ /\ Inject(<<FALSE>>)
        /\ Return("failed to fetch deleted YouTrack issue IDs")
        /\ UNCHANGED ytDeletedIssueIDs
     \/ \E ids \in SeqsUpTo(YTIDs, budget) :
          /\ ytDeletedIssueIDs' = ids
          /\ Spend(Len(ids))
          /\ pc' = EnterGCalEvents(gcalEvents, ytIssues)
          /\ UNCHANGED err
  /\ UNCHANGED <<store, now, gcalSyncToken, ytLastSync, gcalEvents, newGCalSyncToken,
                 ytIssues, allDbItems, idx, history>>
  /\ UNCHANGED world

\* break in place of continue after a logged error: the loop is left
Continue_Break(len, next) ==
  IF idx < len /\ <<pc, idx>> \notin failed'
    THEN /\ idx' = idx + 1
         /\ UNCHANGED pc
  ELSE /\ idx' = 1
       /\ pc' = next

\* one iteration of a loop is over: the next index, or the next phase
Continue(len, next) ==
  IF idx < len THEN /\ idx' = idx + 1
                    /\ UNCHANGED pc
  ELSE /\ idx' = 1
       /\ pc' = next

\* log.Printf of an error for the current item
LogError == failed' = failed \cup {<<pc, idx>>}

\* the err != nil test after CreateIssue / CreateEvent dropped
CreateError_Ignored(remoteOK) == FALSE
\* sync.go 129-132 and 182-185: err != nil after the remote create, then continue
CreateError(remoteOK) == ~remoteOK

\* processGCalEvents, lines 126-141: no sync item for the event
CreateIssueBranch(event, remoteOK, dbOK, issue) ==
  /\ calls' = Append(calls, Call("CreateIssue", YouTrackProjectID, event.Summary,
                                 event.HTMLLink, <<event.Start>>, << >>, remoteOK,
                                 <<issue.ID, issue.Updated>>))
  /\ IF CreateError(remoteOK)
       THEN /\ Inject(<<remoteOK>>) /\ dbOK
            /\ LogError
            /\ UNCHANGED <<items, nextID>>
     ELSE LET new == SyncItem(nextID, NullString(event.ID), NullString(issue.ID),
                              NullTime(event.Updated), NullTime(UnixMilli(issue.Updated)))
          IN /\ Inject(<<dbOK>>)
             /\ IF dbOK /\ CreateSyncItemOK(items, new)
                  THEN /\ items' = CreateSyncItem(items, nextID, new)
                       /\ nextID' = nextID + 1
                       /\ UNCHANGED failed
                ELSE /\ LogError
                     /\ UNCHANGED <<items, nextID>>

\* processGCalEvents, lines 142-155: the event has a sync item
UpdateIssueBranch(event, old, remoteOK, dbOK) ==
  IF After(event.Updated, old.GCalUpdatedAt.Time)
    THEN LET new == [old EXCEPT !.GCalUpdatedAt = NullTime(event.Updated)]
         IN /\ Inject(<<remoteOK, dbOK>>)
            /\ calls' = Append(calls, Call("UpdateIssue", old.YTID.String, event.Summary,
                                           event.HTMLLink, <<event.Start>>, << >>, remoteOK, << >>))
            /\ IF dbOK /\ UpdateSyncItemOK(items, new)
                 THEN items' = UpdateSyncItem(items, new)
                 ELSE UNCHANGED items
            /\ IF remoteOK /\ dbOK /\ UpdateSyncItemOK(items, new)
                 THEN UNCHANGED failed
                 ELSE LogError
            /\ UNCHANGED nextID
  ELSE /\ remoteOK /\ dbOK
       /\ UNCHANGED <<items, nextID, calls, failed, budget>>

\* processGCalEvents, lines 114-158: one iteration of the loop
\* the status test dropped
IsCancelled_Never(event) == FALSE
\* sync.go 116: event.Status == "cancelled"
IsCancelled(event) == event.Status = "cancelled"

ProcessGCalEvent ==
  /\ pc = "processGCalEvents"
  /\ LET event == gcalEvents[idx]
         syncItem == GetSyncItemByGCalID(items, event.ID)
     IN \E getOK, remoteOK, dbOK \in BOOLEAN :
          IF IsCancelled(event)
            THEN /\ getOK /\ remoteOK /\ dbOK
                 /\ UNCHANGED <<items, nextID, calls, failed, budget>>
          ELSE IF ~getOK
            THEN /\ Inject(<<getOK>>) /\ remoteOK /\ dbOK
                 /\ LogError
                 /\ UNCHANGED <<items, nextID, calls>>
          ELSE IF syncItem = {}
            THEN \E issue \in CreatedIssueSet : CreateIssueBranch(event, remoteOK, dbOK, issue)
          ELSE UpdateIssueBranch(event, CHOOSE it \in syncItem : TRUE, remoteOK, dbOK)
  /\ visited' = visited \cup {<<pc, idx>>}
  /\ Continue(Len(gcalEvents), EnterYTissues(ytIssues))
  /\ UNCHANGED <<lastSync, now, gcalSyncToken, ytLastSync, gcalEvents, newGCalSyncToken, ytIssues,
                 ytDeletedIssueIDs, allDbItems, err, itemsAtStart, lastSyncAtStart,
                 tokenWrites, watermarkWrites>>
  /\ UNCHANGED world

\* processYTissues, lines 177-196: no sync item for the issue
CreateEventBranch(issue, dueDate, remoteOK, dbOK, event) ==
  IF ~IsZero(dueDate)
    THEN /\ calls' = Append(calls, Call("CreateEvent", CalendarID, issue.Summary,
                                        Description(issue.ID), <<dueDate>>,
                                        <<Add(dueDate, Hour)>>, remoteOK,
                                        <<event.Id, event.Updated>>))
         /\ IF CreateError(remoteOK)
              THEN /\ Inject(<<remoteOK>>) /\ dbOK
                   /\ LogError
                   /\ UNCHANGED <<items, nextID>>
            ELSE LET updatedTime == ParseRFC3339(event.Updated)
                     new == SyncItem(nextID, NullString(event.Id), NullString(issue.ID),
                                     NullTime(updatedTime), NullTime(UnixMilli(issue.Updated)))
                 IN /\ Inject(<<dbOK>>)
                    /\ IF dbOK /\ CreateSyncItemOK(items, new)
                         THEN /\ items' = CreateSyncItem(items, nextID, new)
                              /\ nextID' = nextID + 1
                              /\ UNCHANGED failed
                       ELSE /\ LogError
                            /\ UNCHANGED <<items, nextID>>
  ELSE /\ remoteOK /\ dbOK
       /\ UNCHANGED <<items, nextID, calls, failed, budget>>

\* processYTissues, lines 197-211: the issue has a sync item
UpdateEventBranch(issue, dueDate, old, remoteOK, dbOK) ==
  LET issueUpdatedTime == UnixMilli(issue.Updated)
  IN IF After(issueUpdatedTime, old.YTUpdatedAt.Time)
       THEN LET new == [old EXCEPT !.YTUpdatedAt = NullTime(issueUpdatedTime)]
            IN /\ Inject(<<remoteOK, dbOK>>)
               /\ calls' = Append(calls, Call("UpdateEvent", old.GCalID.String, issue.Summary,
                                              Description(issue.ID), <<dueDate>>,
                                              <<Add(dueDate, Hour)>>, remoteOK, << >>))
               /\ IF dbOK /\ UpdateSyncItemOK(items, new)
                    THEN items' = UpdateSyncItem(items, new)
                    ELSE UNCHANGED items
               /\ IF remoteOK /\ dbOK /\ UpdateSyncItemOK(items, new)
                    THEN UNCHANGED failed
                    ELSE LogError
               /\ UNCHANGED nextID
     ELSE /\ remoteOK /\ dbOK
          /\ UNCHANGED <<items, nextID, calls, failed, budget>>

\* processYTissues, lines 160-214: one iteration of the loop
ProcessYTIssue ==
  /\ pc = "processYTissues"
  /\ LET issue == ytIssues[idx]
         syncItem == GetSyncItemByYTID(items, issue.ID)
         dueDate == DueDate(issue)
     IN \E getOK, remoteOK, dbOK \in BOOLEAN :
          IF ~getOK
            THEN /\ Inject(<<getOK>>) /\ remoteOK /\ dbOK
                 /\ LogError
                 /\ UNCHANGED <<items, nextID, calls>>
          ELSE IF syncItem = {}
            THEN \E event \in CreatedEventSet : CreateEventBranch(issue, dueDate, remoteOK, dbOK, event)
          ELSE UpdateEventBranch(issue, dueDate, CHOOSE it \in syncItem : TRUE, remoteOK, dbOK)
  /\ visited' = visited \cup {<<pc, idx>>}
  /\ Continue(Len(ytIssues), "handleDeletions")
  /\ UNCHANGED <<lastSync, now, gcalSyncToken, ytLastSync, gcalEvents, newGCalSyncToken, ytIssues,
                 ytDeletedIssueIDs, allDbItems, err, itemsAtStart, lastSyncAtStart,
                 tokenWrites, watermarkWrites>>
  /\ UNCHANGED world

\* SetYTLastSync deferred at the top of Sync: it runs when GetAllSyncItems fails
HandleDeletions_DeferredWatermark ==
  /\ pc = "handleDeletions"
  /\ \E dbOK \in BOOLEAN :
       /\ Inject(<<dbOK>>)
       /\ IF ~dbOK
            THEN /\ Return("failed to get all sync items")
                 /\ lastSync' = SetYTLastSync(lastSync, now)
                 /\ UNCHANGED <<allDbItems, idx>>
          ELSE /\ allDbItems' = GetAllSyncItems(items)
               /\ idx' = 1
               /\ pc' = EnterDeletionsLoop(allDbItems', ytDeletedIssueIDs)
               /\ UNCHANGED <<err, lastSync>>
  /\ UNCHANGED <<items, nextID, now, gcalSyncToken, ytLastSync, gcalEvents, newGCalSyncToken,
                 ytIssues, ytDeletedIssueIDs, history>>
  /\ UNCHANGED world

\* handleDeletions, lines 217-225: GetAllSyncItems, the only store read of
\* the four phases whose error is returned
HandleDeletions ==
  /\ pc = "handleDeletions"
  /\ \E dbOK \in BOOLEAN :
       /\ Inject(<<dbOK>>)
       /\ IF ~dbOK
            THEN /\ Return("failed to get all sync items")
                 /\ UNCHANGED <<allDbItems, idx>>
          ELSE /\ allDbItems' = GetAllSyncItems(items)
               /\ idx' = 1
               /\ pc' = EnterDeletionsLoop(allDbItems', ytDeletedIssueIDs)
               /\ UNCHANGED err
  /\ UNCHANGED <<store, now, gcalSyncToken, ytLastSync, gcalEvents, newGCalSyncToken, ytIssues,
                 ytDeletedIssueIDs, history>>
  /\ UNCHANGED world

\* handleDeletions, lines 227-241: one iteration of the loop
HandleDeletionsItem ==
  /\ pc = "handleDeletionsLoop"
  /\ LET item == allDbItems[idx]
         event == GCalEventMap(gcalEvents, item.GCalID.String)
     IN \E remoteOK, dbOK \in BOOLEAN :
          IF item.GCalID.Valid /\ event # {} /\ (\A e \in event : e.Status = "cancelled")
            THEN /\ Inject(<<remoteOK, dbOK>>)
                 /\ calls' = Append(calls, Call("UpdateIssue", item.YTID.String, << >>, << >>,
                                                << >>, << >>, remoteOK, << >>))
                 /\ IF dbOK THEN items' = DeleteSyncItem(items, item.ID)
                            ELSE UNCHANGED items
                 /\ IF remoteOK /\ dbOK THEN UNCHANGED failed ELSE LogError
          ELSE /\ remoteOK /\ dbOK
               /\ UNCHANGED <<items, calls, failed, budget>>
  /\ visited' = visited \cup {<<pc, idx>>}
  /\ Continue(Len(allDbItems), EnterYTDeletions(ytDeletedIssueIDs))
  /\ UNCHANGED <<nextID, lastSync, now, gcalSyncToken, ytLastSync, gcalEvents, newGCalSyncToken,
                 ytIssues, ytDeletedIssueIDs, allDbItems, err, itemsAtStart, lastSyncAtStart,
                 tokenWrites, watermarkWrites>>
  /\ UNCHANGED world

\* processYTDeletions, lines 245-265: one iteration of the loop
ProcessYTDeletion ==
  /\ pc = "processYTDeletions"
  /\ LET ytID == ytDeletedIssueIDs[idx]
         syncItem == GetSyncItemByYTID(items, ytID)
     IN \E getOK, remoteOK, dbOK \in BOOLEAN :
          IF ~getOK
            THEN /\ Inject(<<getOK>>) /\ remoteOK /\ dbOK
                 /\ LogError
                 /\ UNCHANGED <<items, calls>>
          ELSE IF syncItem # {} /\ (\A it \in syncItem : it.GCalID.Valid)
            THEN LET old == CHOOSE it \in syncItem : TRUE
                 IN /\ Inject(<<remoteOK, dbOK>>)
                    /\ calls' = Append(calls, Call("DeleteEvent", old.GCalID.String, << >>, << >>,
                                                   << >>, << >>, remoteOK, << >>))
                    /\ IF dbOK THEN items' = DeleteSyncItem(items, old.ID)
                               ELSE UNCHANGED items
                    /\ IF remoteOK /\ dbOK THEN UNCHANGED failed ELSE LogError
          ELSE /\ remoteOK /\ dbOK
               /\ UNCHANGED <<items, calls, failed, budget>>
  /\ visited' = visited \cup {<<pc, idx>>}
  /\ Continue(Len(ytDeletedIssueIDs), "commit")
  /\ UNCHANGED <<nextID, lastSync, now, gcalSyncToken, ytLastSync, gcalEvents, newGCalSyncToken,
                 ytIssues, ytDeletedIssueIDs, allDbItems, err, itemsAtStart, lastSyncAtStart,
                 tokenWrites, watermarkWrites>>
  /\ UNCHANGED world

\* Sync, lines 101-112: the cursor writes; their errors are logged only
CommitCursors ==
  /\ pc = "commit"
  /\ \E dbOK1, dbOK2 \in BOOLEAN :
       LET writeToken == newGCalSyncToken # "" /\ newGCalSyncToken # gcalSyncToken
           afterToken == IF writeToken /\ dbOK1
                           THEN SetGCalSyncToken(lastSync, newGCalSyncToken)
                           ELSE lastSync
       IN /\ Inject(<<dbOK1, dbOK2>>)
          /\ IF writeToken THEN TRUE ELSE dbOK1
          /\ tokenWrites' = IF writeToken THEN tokenWrites + 1 ELSE tokenWrites
          /\ watermarkWrites' = watermarkWrites + 1
          /\ lastSync' = IF dbOK2 THEN SetYTLastSync(afterToken, now) ELSE afterToken
          /\ failed' = failed \cup (IF writeToken /\ ~dbOK1 THEN {<<"commit", 1>>} ELSE {})
                              \cup (IF ~dbOK2 THEN {<<"commit", 2>>} ELSE {})
  /\ Return("nil")
  /\ UNCHANGED <<items, nextID, now, locals, calls, visited, itemsAtStart, lastSyncAtStart>>
  /\ UNCHANGED world

Next ==
  \/ Tick
  \/ SyncStart
  \/ LoadCursors
  \/ FetchEvents
  \/ GetUpdatedIssues
  \/ GetDeletedIssueIDs
  \/ ProcessGCalEvent
  \/ ProcessYTIssue
  \/ HandleDeletions
  \/ HandleDeletionsItem
  \/ ProcessYTDeletion
  \/ CommitCursors

Spec == Init /\ [][Next]_vars

TypeOK ==
  /\ pc \in {"idle", "loadCursors", "fetchEvents", "getUpdatedIssues", "getDeletedIssueIDs",
             "processGCalEvents", "processYTissues", "handleDeletions", "handleDeletionsLoop",
             "processYTDeletions", "commit"}
  /\ budget \in 0..MaxEvents
  /\ now \in 0..MaxEvents

\* ------------------------------------------------------------ run history
FetchErrors == {"failed to fetch Google Calendar events", "failed to fetch YouTrack issues",
                "failed to fetch deleted YouTrack issue IDs"}
CursorReadErrors == {"failed to get Google Calendar sync token",
                     "failed to get YouTrack last sync time"}
ListAllError == "failed to get all sync items"

\* the loop iterations a complete run executes
Iterations(phase, list) == {<<phase, i>> : i \in 1..Len(list)}

AllPhasesFinished ==
  /\ Iterations("processGCalEvents", gcalEvents) \subseteq visited
  /\ Iterations("processYTissues", ytIssues) \subseteq visited
  /\ Iterations("handleDeletionsLoop", allDbItems) \subseteq visited
  /\ Iterations("processYTDeletions", ytDeletedIssueIDs) \subseteq visited

Returned == pc = "idle" /\ err # "none"

\* ---------------------------------------------------------------- C1
\* C1: in every run each cursor setter (SetGCalSyncToken, SetYTLastSync) is
\* called at most once, and only after the four per-item phases of the run
\* have finished: while the run is in or before a phase no setter has been
\* called and the last_sync row is the one the run started with.
C1_CursorsWrittenOnceAfterPhases ==
  /\ tokenWrites <= 1
  /\ watermarkWrites <= 1
  /\ pc # "idle" => (tokenWrites = 0 /\ watermarkWrites = 0 /\ lastSync = lastSyncAtStart)
  /\ (tokenWrites > 0 \/ watermarkWrites > 0 \/ lastSync # lastSyncAtStart)
       => (pc = "idle" /\ err = "nil" /\ AllPhasesFinished)

\* a run that did per-item work in a phase and then wrote both cursors
C1_Witness ==
  /\ pc = "idle"
  /\ tokenWrites = 1
  /\ watermarkWrites = 1
  /\ calls # << >>
  /\ lastSync # lastSyncAtStart

\* ---------------------------------------------------------------- C2
\* C2: when one of the three fetches fails, Sync returns that error and the
\* run has issued no remote write, has left every sync item as it was and has
\* written no cursor.
C2_FetchFailureChangesNothing ==
  (pc = "idle" /\ err \in FetchErrors)
    => /\ calls = << >>
       /\ items = itemsAtStart
       /\ lastSync = lastSyncAtStart
       /\ tokenWrites = 0
       /\ watermarkWrites = 0
       /\ visited = {}

\* the last fetch failed after FetchEvents had delivered an event, on a store
\* that holds a sync item and a last_sync row
C2_Witness ==
  /\ pc = "idle"
  /\ err = "failed to fetch deleted YouTrack issue IDs"
  /\ gcalEvents # << >>
  /\ items # {}
  /\ lastSync # << >>

ItemPhases == {"processGCalEvents", "processYTissues", "handleDeletionsLoop", "processYTDeletions"}

PhaseList(phase) ==
  CASE phase = "processGCalEvents" -> gcalEvents
    [] phase = "processYTissues" -> ytIssues
    [] phase = "handleDeletionsLoop" -> allDbItems
    [] phase = "processYTDeletions" -> ytDeletedIssueIDs

PhaseRank(p) ==
  CASE p = "processGCalEvents" -> 1
    [] p = "processYTissues" -> 2
    [] p = "handleDeletions" -> 3
    [] p = "handleDeletionsLoop" -> 4
    [] p = "processYTDeletions" -> 5
    [] p = "commit" -> 6
    [] OTHER -> 0

ItemFailures == {f \in failed : f[1] \in ItemPhases}

\* C4: an error logged for one item never stops the run: whatever errors were
\* logged, a loop is at index idx only after executing every earlier
\* iteration, a later phase is reached only after every iteration of the
\* earlier loops, a run that returns nil executed every iteration of the four
\* loops, and a run that logged an error for an item returns nil unless
\* GetAllSyncItems failed afterwards.
C4_PerItemFailureIsolated ==
  /\ \A p \in ItemPhases :
       /\ pc = p => {v \in visited : v[1] = p} = {<<p, i>> : i \in 1..(idx - 1)}
       /\ PhaseRank(pc) > PhaseRank(p) => Iterations(p, PhaseList(p)) \subseteq visited
  /\ (pc = "idle" /\ err = "nil") => AllPhasesFinished
  /\ (pc = "idle" /\ ItemFailures # {}) => err \in {"nil", ListAllError}
  /\ (pc = "idle" /\ ItemFailures # {} /\ err = ListAllError)
       => \A f \in ItemFailures : f[1] \in {"processGCalEvents", "processYTissues"}
  /\ (pc = "idle" /\ err = "none") => visited = {}

\* an item failed, a later item of the same loop was processed and Sync returned nil
C4_Witness ==
  /\ pc = "idle"
  /\ err = "nil"
  /\ \E f \in ItemFailures : \E v \in visited : v[1] = f[1] /\ v[2] > f[2]

\* ------------------------------------------------- steps of the two loops
\* the remote write call a step has just issued, if it issued one
IssuedCall == Len(calls') = Len(calls) + 1
LastCall == calls'[Len(calls')]
LoggedError == <<pc, idx>> \in failed'

\* the current item of processGCalEvents / processYTissues and its sync item
CurrentEvent == gcalEvents[idx]
CurrentIssue == ytIssues[idx]
ActiveEventStep == pc = "processGCalEvents" /\ CurrentEvent.Status # "cancelled"
IssueStep == pc = "processYTissues"
EventBinding == GetSyncItemByGCalID(items, CurrentEvent.ID)
IssueBinding == GetSyncItemByYTID(items, CurrentIssue.ID)

\* the getter of the sync item failed: the error is logged and nothing else happens
LookupFailed == LoggedError /\ ~IssuedCall /\ items' = items /\ budget' = budget - 1

\* ---------------------------------------------------------------- C6
\* C6 as stated: when the remote update of the binding-exists branch
\* (UpdateIssue for an event, UpdateEvent for an issue) returns an error, the
\* stored sync item is left unchanged.
C6_TimestampAdvancedOnlyOnSuccess ==
  [][ (/\ pc \in {"processGCalEvents", "processYTissues"}
       /\ IssuedCall
       /\ LastCall.op \in {"UpdateIssue", "UpdateEvent"}
       /\ ~LastCall.ok)
      => items' = items ]_vars

\* ---------------------------------------------------------------- C7
CreateOps == {"CreateIssue", "CreateEvent"}
NewSyncItems == {it \in items' : \A o \in items : o.ID # it.ID}

\* C7: a step inserts a sync item only if it issued a remote create that
\* returned without error, the inserted item holds the id of the item the
\* step looked at and the id the create returned, and a step whose remote
\* create returned an error leaves sync_items as it was.
C7_BindingOnlyAfterCreateSuccess ==
  [][ /\ NewSyncItems # {}
        => IF IssuedCall
             THEN IF LastCall.ok /\ LastCall.op \in CreateOps
                    THEN \A it \in NewSyncItems :
                           /\ it.GCalID.Valid
                           /\ it.YTID.Valid
                           /\ LastCall.op = "CreateIssue"
                                => (it.GCalID.String = CurrentEvent.ID /\ it.YTID.String = LastCall.ret[1])
                           /\ LastCall.op = "CreateEvent"
                                => (it.GCalID.String = LastCall.ret[1] /\ it.YTID.String = CurrentIssue.ID)
                  ELSE FALSE
           ELSE FALSE
      /\ (IF IssuedCall THEN LastCall.op \in CreateOps /\ ~LastCall.ok ELSE FALSE)
        => items' = items ]_vars

\* a run whose remote create failed has returned, and sync_items is as it was
C7_Witness ==
  /\ pc = "idle"
  /\ err = "nil"
  /\ \E i \in DOMAIN calls : calls[i].op \in CreateOps /\ ~calls[i].ok
  /\ items = itemsAtStart

\* ---------------------------------------------------------------- C8
\* C8: the step of processGCalEvents for an active event without sync item,
\* unless the getter failed, issues exactly one remote write: CreateIssue in
\* YouTrackProjectID with the event's summary, html link and start; when the
\* create returns an issue and no error is logged for the item, sync_items
\* gains exactly the row (event id, issue id, event.Updated, issue.Updated).
C8_NewEventCreatesIssueAndBinding ==
  [][ (ActiveEventStep /\ EventBinding = {})
      => IF IssuedCall
           THEN /\ LastCall.op = "CreateIssue"
                /\ LastCall.target = YouTrackProjectID
                /\ LastCall.summary = CurrentEvent.Summary
                /\ LastCall.description = CurrentEvent.HTMLLink
                /\ LastCall.start = <<CurrentEvent.Start>>
                /\ (LastCall.ok /\ ~LoggedError)
                     => items' = items \cup
                          {[ID |-> nextID,
                            GCalID |-> [String |-> CurrentEvent.ID, Valid |-> TRUE],
                            YTID |-> [String |-> LastCall.ret[1], Valid |-> TRUE],
                            GCalUpdatedAt |-> [Time |-> CurrentEvent.Updated, Valid |-> TRUE],
                            YTUpdatedAt |-> [Time |-> LastCall.ret[2], Valid |-> TRUE]]}
                /\ ~LastCall.ok => LoggedError
         ELSE LookupFailed ]_vars

\* a run created an issue for a new event and stored the sync item of the pair
C8_Witness ==
  /\ pc = "idle"
  /\ err = "nil"
  /\ \E i \in DOMAIN calls :
       /\ calls[i].op = "CreateIssue"
       /\ calls[i].ok
       /\ \E it \in items \ itemsAtStart :
            /\ it.GCalID.String = gcalEvents[calls[i].idx].ID
            /\ it.YTID.String = calls[i].ret[1]
            /\ it.GCalUpdatedAt.Time = gcalEvents[calls[i].idx].Updated
            /\ it.YTUpdatedAt.Time = calls[i].ret[2]

\* ---------------------------------------------------------------- C9
\* the numeric Due Date values the issue carries
NumericDueDates(issue) ==
  {issue.CustomFields[k].Value.val :
     k \in {j \in DOMAIN issue.CustomFields :
              /\ issue.CustomFields[j].Name = "Due Date"
              /\ issue.CustomFields[j].Value.type = "float64"}}

\* C9: the step of processYTissues for an issue without sync item that carries
\* a numeric Due Date, unless the getter failed, issues exactly one remote
\* write: CreateEvent in CalendarID with the issue's summary and the due date
\* as start; when the create returns an event and no error is logged for the
\* item, sync_items gains exactly one row, pairing the returned event id with
\* the issue id, with yt_updated_at = issue.Updated and gcal_updated_at the
\* instant the returned event's Updated string denotes.
C9_NewDatedIssueCreatesEventAndBinding ==
  [][ (IssueStep /\ IssueBinding = {} /\ NumericDueDates(CurrentIssue) # {})
      => IF IssuedCall
           THEN /\ LastCall.op = "CreateEvent"
                /\ LastCall.target = CalendarID
                /\ LastCall.summary = CurrentIssue.Summary
                /\ \E d \in NumericDueDates(CurrentIssue) : LastCall.start = <<d>>
                /\ (LastCall.ok /\ ~LoggedError)
                     => \E it \in items' :
                          /\ items' = items \cup {it}
                          /\ it \notin items
                          /\ it.ID = nextID
                          /\ it.GCalID = [String |-> LastCall.ret[1], Valid |-> TRUE]
                          /\ it.YTID = [String |-> CurrentIssue.ID, Valid |-> TRUE]
                          /\ it.YTUpdatedAt = [Time |-> CurrentIssue.Updated, Valid |-> TRUE]
                          /\ it.GCalUpdatedAt.Valid
                          /\ \A t \in Instants :
                               LastCall.ret[2] = RFC3339(t) => it.GCalUpdatedAt.Time = t
                /\ ~LastCall.ok => LoggedError
         ELSE LookupFailed ]_vars

\* a run created an event for a new dated issue and stored the sync item with
\* the instant of the created event
C9_Witness ==
  /\ pc = "idle"
  /\ err = "nil"
  /\ \E i \in DOMAIN calls :
       /\ calls[i].op = "CreateEvent"
       /\ calls[i].ok
       /\ \E it \in items \ itemsAtStart, t \in Instants :
            /\ calls[i].ret = <<it.GCalID.String, RFC3339(t)>>
            /\ it.YTID.String = ytIssues[calls[i].idx].ID
            /\ it.GCalUpdatedAt.Time = t
            /\ it.YTUpdatedAt.Time = ytIssues[calls[i].idx].Updated

\* ---------------------------------------------------------------- C10
UpdateOps == {"UpdateIssue", "UpdateEvent"}

\* C10: in the step for an active event (an issue) that has a sync item, unless
\* the getter failed, UpdateIssue (UpdateEvent) is issued for the bound issue
\* (event) when the item's Updated is strictly greater than the stored
\* gcal_updated_at (yt_updated_at), and only then: when it is equal or smaller
\* the step issues no remote write and leaves sync_items unchanged.
C10_StrictGreaterUpdateRule ==
  [][ /\ (ActiveEventStep /\ EventBinding # {})
        => \A b \in EventBinding :
             IF CurrentEvent.Updated > b.GCalUpdatedAt.Time
               THEN IF IssuedCall
                      THEN LastCall.op = "UpdateIssue" /\ LastCall.target = b.YTID.String
                      ELSE LookupFailed
               ELSE ~IssuedCall /\ calls' = calls /\ items' = items
      /\ (IssueStep /\ IssueBinding # {})
        => \A b \in IssueBinding :
             IF CurrentIssue.Updated > b.YTUpdatedAt.Time
               THEN IF IssuedCall
                      THEN LastCall.op = "UpdateEvent" /\ LastCall.target = b.GCalID.String
                      ELSE LookupFailed
               ELSE ~IssuedCall /\ calls' = calls /\ items' = items ]_vars

\* a run processed an active event whose Updated equals the stored
\* gcal_updated_at of its sync item: no call was issued, the item is as it was
C10_Witness ==
  /\ pc = "idle"
  /\ err = "nil"
  /\ calls = << >>
  /\ items = itemsAtStart
  /\ failed = {}
  /\ \E i \in DOMAIN gcalEvents : \E b \in GetSyncItemByGCalID(items, gcalEvents[i].ID) :
       /\ gcalEvents[i].Status = "confirmed"
       /\ gcalEvents[i].Updated = b.GCalUpdatedAt.Time
       /\ <<"processGCalEvents", i>> \in visited

\* =================================================== a calendar at rest
\* The remote side when nothing changes it from outside: the calendar holds
\* the events of RemoteLog, in the order of their last change, the query
\* project holds RemoteIssues (no due date) and lost RemoteDeletedIssueIDs at
\* instant 1.  The write project is another project: the issues CreateIssue
\* returns are not among the issues GetUpdatedIssues lists.  A sync token
\* names a position in the log; FetchEvents answers with the events changed
\* after the position of the token given, all of them for the empty token,
\* and the token of the end of the log.
RemoteLog == << Event("g1", "confirmed", 1), Event("g2", "confirmed", 2) >>
RemoteIssues == << Issue("q1", 1, << >>) >>
RemoteDeletedIssueIDs == << "q2" >>
RemoteTokens == << "t0", "t1", "t2" >>
RemoteNow == MaxInstant + 1

TokenOf(n) == RemoteTokens[n + 1]
PositionOf(token) == CHOOSE n \in 0..Len(RemoteLog) : TokenOf(n) = token
EventsSince(token) ==
  IF token = "" THEN RemoteLog
  ELSE SubSeq(RemoteLog, PositionOf(token) + 1, Len(RemoteLog))

RECURSIVE SelectSeq2(_, _)
SelectSeq2(seq, since) ==
  IF seq = << >> THEN << >>
  ELSE (IF Head(seq).Updated >= since THEN <<Head(seq)>> ELSE << >>) \o SelectSeq2(Tail(seq), since)

\* Sync, lines 75-78, against the calendar at rest
FetchEventsRemote ==
  /\ pc = "fetchEvents"
  /\ \/ /\ Inject(<<FALSE>>)
        /\ Return("failed to fetch Google Calendar events")
        /\ UNCHANGED <<gcalEvents, newGCalSyncToken>>
     \/ /\ gcalEvents' = EventsSince(gcalSyncToken)
        /\ newGCalSyncToken' = TokenOf(Len(RemoteLog))
        /\ pc' = "getUpdatedIssues"
        /\ UNCHANGED <<err, budget>>
  /\ UNCHANGED <<store, now, gcalSyncToken, ytLastSync, ytIssues, ytDeletedIssueIDs,
                 allDbItems, idx, history>>
  /\ UNCHANGED world

\* Sync, lines 79-82: the issues updated at or after ytLastSync
GetUpdatedIssuesRemote ==
  /\ pc = "getUpdatedIssues"
  /\ \/ /\ Inject(<<FALSE>>)
        /\ Return("failed to fetch YouTrack issues")
        /\ UNCHANGED ytIssues
     \/ /\ ytIssues' = SelectSeq2(RemoteIssues, ytLastSync)
        /\ pc' = "getDeletedIssueIDs"
        /\ UNCHANGED <<err, budget>>
  /\ UNCHANGED <<store, now, gcalSyncToken, ytLastSync, gcalEvents, newGCalSyncToken,
                 ytDeletedIssueIDs, allDbItems, idx, history>>
  /\ UNCHANGED world

\* Sync, lines 83-86: the issues deleted at or after ytLastSync
GetDeletedIssueIDsRemote ==
  /\ pc = "getDeletedIssueIDs"
  /\ \/ /\ Inject(<<FALSE>>)
        /\ Return("failed to fetch deleted YouTrack issue IDs")
        /\ UNCHANGED ytDeletedIssueIDs
     \/ /\ ytDeletedIssueIDs' = (IF ytLastSync <= 1 THEN RemoteDeletedIssueIDs ELSE << >>)
        /\ pc' = EnterGCalEvents(gcalEvents, ytIssues)
        /\ UNCHANGED <<err, budget>>
  /\ UNCHANGED <<store, now, gcalSyncToken, ytLastSync, gcalEvents, newGCalSyncToken,
                 ytIssues, allDbItems, idx, history>>
  /\ UNCHANGED world

InitRemote == InitFrom({FreshStore}, RemoteNow)

NextRemote ==
  \/ Tick
  \/ SyncStart
  \/ LoadCursors
  \/ FetchEventsRemote
  \/ GetUpdatedIssuesRemote
  \/ GetDeletedIssueIDsRemote
  \/ ProcessGCalEvent
  \/ ProcessYTIssue
  \/ HandleDeletions
  \/ HandleDeletionsItem
  \/ ProcessYTDeletion
  \/ CommitCursors

\* main.go / StartSyncLoop: Sync is called again and again, and every step of
\* a run is taken
SpecRemote == InitRemote /\ [][NextRemote]_vars /\ WF_vars(NextRemote)

\* ---------------------------------------------------------------- C5
FailedCreateFor(event) ==
  \E i \in DOMAIN calls :
    /\ calls[i].op = "CreateIssue"
    /\ ~calls[i].ok
    /\ calls[i].summary = event.Summary

\* C5 as stated, on the calendar side: once a run has ended in which
\* CreateIssue failed for an event, so that the event has no sync item, a
\* later run processes that event again (and so re-attempts the creation),
\* although nothing changes the event any more; unless the cursors have
\* become unreadable, so that no later run succeeds.
C5_FailedCreateReattempted ==
  \A k \in DOMAIN RemoteLog :
    (/\ pc = "idle"
     /\ FailedCreateFor(RemoteLog[k])
     /\ GetSyncItemByGCalID(items, RemoteLog[k].ID) = {})
      ~> (\/ (pc = "processGCalEvents" /\ gcalEvents[idx].ID = RemoteLog[k].ID)
          \/ ~GetGCalSyncTokenOK(lastSync)
          \/ ~GetYTLastSyncOK(lastSync))

\* ================================================== two consecutive runs
\* The same program and environment as Spec, watched by an observer who
\* keeps, when Sync is called again, what the run before did if that run
\* returned nil, logged no error and created an issue or an event.
RunRecord ==
  [n |-> 1, calls |-> calls, gcalEvents |-> gcalEvents, ytIssues |-> ytIssues,
   itemsAtStart |-> itemsAtStart]

CleanRun ==
  /\ err = "nil"
  /\ failed = {}
  /\ \E k \in DOMAIN calls : calls[k].op \in {"CreateIssue", "CreateEvent"}
\* any other run is not compared with its successor
OtherRun == [n |-> 2]

\* StartSyncLoop / main: the first call of Sync and the one after it
SyncStartHist ==
  /\ prev = NoRun
  /\ StartRun
  /\ prev' = IF err = "none" THEN NoRun ELSE IF CleanRun THEN RunRecord ELSE OtherRun
  /\ UNCHANGED remote

NextHist ==
  \/ Tick
  \/ SyncStartHist
  \/ LoadCursors
  \/ FetchEvents
  \/ GetUpdatedIssues
  \/ GetDeletedIssueIDs
  \/ ProcessGCalEvent
  \/ ProcessYTIssue
  \/ HandleDeletions
  \/ HandleDeletionsItem
  \/ ProcessYTDeletion
  \/ CommitCursors

\* the store as createSchema leaves it: every event and issue is new to it
InitHist == InitFrom({FreshStore}, 0)

SpecHist == InitHist /\ [][NextHist]_vars

\* two consecutive runs that both returned nil, the first without a logged
\* error: prev and the run just ended
TwoSuccessfulRuns == pc = "idle" /\ err = "nil" /\ prev.n = 1

Range(seq) == {seq[i] : i \in DOMAIN seq}

\* the calls op that a run issued while processing the delta entries with this id
CallsForEvent(cs, events, op, id) ==
  {k \in DOMAIN cs : cs[k].op = op /\ cs[k].phase = "processGCalEvents" /\ events[cs[k].idx].ID = id}
CallsForIssue(cs, issues, op, id) ==
  {k \in DOMAIN cs : cs[k].op = op /\ cs[k].phase = "processYTissues" /\ issues[cs[k].idx].ID = id}

\* the sync item of the pair was removed by neither run: the event was not
\* cancelled and its issue not deleted, which are changes from outside
NotRemoved(gcalID) ==
  /\ \A e \in Range(prev.gcalEvents) \cup Range(gcalEvents) : e.ID = gcalID => e.Status # "cancelled"
  /\ \A c \in Range(prev.calls) \cup Range(calls) : c.op = "DeleteEvent" => c.target # gcalID

\* ---------------------------------------------------------------- C11
\* the same active event, new to the store when the first run started, is in
\* the delta of both runs
SameNewEventTwice(e) ==
  /\ e.Status = "confirmed"
  /\ e \in Range(prev.gcalEvents)
  /\ e \in Range(gcalEvents)
  /\ GetSyncItemByGCalID(prev.itemsAtStart, e.ID) = {}
  /\ NotRemoved(e.ID)

\* C11: when two consecutive runs returned nil and both deltas held the same
\* new active event with the same Updated, the first run having logged no
\* error, the two runs together issued exactly one CreateIssue for that event
\* id and sync_items holds exactly one row with that gcal_id.
C11_CalEchoIdempotent ==
  TwoSuccessfulRuns
    => \A e \in GCalEventSet :
         SameNewEventTwice(e)
           => /\ Cardinality(CallsForEvent(prev.calls, prev.gcalEvents, "CreateIssue", e.ID))
                   + Cardinality(CallsForEvent(calls, gcalEvents, "CreateIssue", e.ID)) = 1
              /\ Cardinality(GetSyncItemByGCalID(items, e.ID)) = 1

\* the second run has seen the event again and issued nothing
C11_Witness ==
  /\ TwoSuccessfulRuns
  /\ \E e \in GCalEventSet : SameNewEventTwice(e)
  /\ prev.calls # << >>
  /\ calls = << >>

\* ---------------------------------------------------------------- C12
\* neither run removed a sync item: no event was cancelled and no issue
\* deleted, which are changes from outside
NoRemoval ==
  \A c \in Range(prev.calls) \cup Range(calls) :
    c.phase \notin {"handleDeletionsLoop", "processYTDeletions"}

\* the same issue with a numeric Due Date, new to the store when the first
\* run started and not created by that run, is in the delta of both runs
SameNewIssueTwice(i) ==
  /\ ~IsZero(DueDate(i))
  /\ i \in Range(prev.ytIssues)
  /\ i \in Range(ytIssues)
  /\ GetSyncItemByYTID(prev.itemsAtStart, i.ID) = {}
  /\ \A c \in Range(prev.calls) : c.op = "CreateIssue" /\ c.ok => c.ret[1] # i.ID
  /\ NoRemoval

\* C12: when two consecutive runs returned nil and both issue deltas held the
\* same new issue with a numeric Due Date and the same Updated, the first run
\* having logged no error, the two runs together issued exactly one
\* CreateEvent for that issue id and sync_items holds exactly one row with
\* that yt_id.
C12_ItEchoIdempotent ==
  TwoSuccessfulRuns
    => \A i \in YTIssueSet :
         SameNewIssueTwice(i)
           => /\ Cardinality(CallsForIssue(prev.calls, prev.ytIssues, "CreateEvent", i.ID))
                   + Cardinality(CallsForIssue(calls, ytIssues, "CreateEvent", i.ID)) = 1
              /\ Cardinality(GetSyncItemByYTID(items, i.ID)) = 1

\* the second run has seen the issue again and issued nothing
C12_Witness ==
  /\ TwoSuccessfulRuns
  /\ \E i \in YTIssueSet : SameNewIssueTwice(i)
  /\ prev.calls # << >>
  /\ calls = << >>

\* ---------------------------------------------------------------- C14
\* the run received nothing from the three fetches
NothingFetched == gcalEvents = << >> /\ ytIssues = << >> /\ ytDeletedIssueIDs = << >>

\* C14: as long as the deltas and the deletion list of the current run are
\* empty, the run has issued no remote call and sync_items is as it was when
\* the run started, whatever the table holds.
C14_EmptyRunWritesNothing ==
  NothingFetched => calls = << >> /\ items = itemsAtStart

\* a run over a table with rows went through all four phases and returned nil
C14_Witness ==
  /\ pc = "idle"
  /\ err = "nil"
  /\ NothingFetched
  /\ items # {}
  /\ allDbItems # << >>

\* ---------------------------------------------------------------- C15
\* C15: in every reachable state no two rows of sync_items have the same
\* gcal_id and no two have the same yt_id (nor the same id).
C15_BindingIdsUnique ==
  \A a, b \in items :
    a # b => /\ a.ID # b.ID
             /\ a.GCalID.Valid /\ b.GCalID.Valid => a.GCalID.String # b.GCalID.String
             /\ a.YTID.Valid /\ b.YTID.Valid => a.YTID.String # b.YTID.String

\* CreateIssue returned the id of an issue that a row of another event holds:
\* the insert was rejected and the iteration logged the error
C15_Witness ==
  \E k \in DOMAIN calls :
    /\ calls[k].op = "CreateIssue"
    /\ calls[k].ok
    /\ <<calls[k].phase, calls[k].idx>> \in failed
    /\ \E it \in items : /\ it.YTID = NullString(calls[k].ret[1])
                         /\ it.GCalID # NullString(gcalEvents[calls[k].idx].ID)

\* ---------------------------------------------------------------- C16
\* C16: no step lowers gcal_updated_at or yt_updated_at of a row that exists
\* before and after the step.
C16_TimestampsNonDecreasing ==
  [][\A a \in items : \A b \in items' :
       a.ID = b.ID => /\ b.GCalUpdatedAt.Time >= a.GCalUpdatedAt.Time
                      /\ b.YTUpdatedAt.Time >= a.YTUpdatedAt.Time]_vars

\* a run has raised a stored timestamp
C16_Witness ==
  \E a \in itemsAtStart : \E b \in items :
    /\ a.ID = b.ID
    /\ \/ b.GCalUpdatedAt.Time > a.GCalUpdatedAt.Time
       \/ b.YTUpdatedAt.Time > a.YTUpdatedAt.Time

\* ---------------------------------------------------------------- C17
\* the two cursor slots of last_sync; an absent row and a NULL column are unset
StoredToken(ls) == IF ls = << >> THEN NoString ELSE ls[1].gcal_sync_token
StoredWatermark(ls) == IF ls = << >> THEN NoTime ELSE ls[1].yt_last_sync

\* C17: no step makes a set watermark unset or smaller, and no step replaces
\* a set, non-empty sync token by the empty string or by NULL, whether the
\* writes of the commit succeed or fail.
C17_CursorSlotsNeverRegress ==
  [][/\ StoredWatermark(lastSync).Valid
          => /\ StoredWatermark(lastSync').Valid
             /\ StoredWatermark(lastSync').Time >= StoredWatermark(lastSync).Time
     /\ StoredToken(lastSync).Valid /\ StoredToken(lastSync).String # ""
          => StoredToken(lastSync').Valid /\ StoredToken(lastSync').String # ""]_vars

\* ---------------------------------------------------------------- C18
\* the instant the run started, for a run that found no watermark: line 72
\* set ytLastSync to that instant minus thirty days
StartedAt == Add(ytLastSync, ThirtyDays)

\* C18: after a run that found no watermark and whose SetYTLastSync did not
\* fail, the stored watermark is the instant the run started.
C18_WatermarkIsRunStart ==
  /\ pc = "idle"
  /\ err = "nil"
  /\ <<"commit", 2>> \notin failed
  /\ IsZero(GetYTLastSync(lastSyncAtStart))
  => StoredWatermark(lastSync) = NullTime(StartedAt)

\* ---------------------------------------------------------------- C19
\* neither cursor write of the commit logged an error
CommitClean == failed \cap {<<"commit", 1>>, <<"commit", 2>>} = {}

\* C19: after a run that returned nil and whose cursor writes did not fail,
\* the stored sync token is the one FetchEvents returned when that is not
\* empty and the one stored before the run otherwise, and the stored
\* watermark is set and not the zero time.
C19_CursorsAfterSuccessfulRun ==
  pc = "idle" /\ err = "nil" /\ CommitClean
    => /\ StoredToken(lastSync) = IF newGCalSyncToken # ""
                                    THEN NullString(newGCalSyncToken)
                                    ELSE StoredToken(lastSyncAtStart)
       /\ StoredWatermark(lastSync).Valid
       /\ ~IsZero(StoredWatermark(lastSync).Time)

\* a run replaced the stored token by a new one
C19_Witness ==
  /\ pc = "idle"
  /\ err = "nil"
  /\ CommitClean
  /\ newGCalSyncToken # ""
  /\ StoredToken(lastSyncAtStart).Valid
  /\ StoredToken(lastSyncAtStart).String # newGCalSyncToken
  /\ tokenWrites = 1

\* ---------------------------------------------------------------- C20
\* the delta reports the event as cancelled / does not report it as cancelled
CancelledInDelta(id) ==
  \E i \in DOMAIN gcalEvents :
    /\ gcalEvents[i].ID = id
    /\ gcalEvents[i].Status = "cancelled"
    /\ \A j \in DOMAIN gcalEvents : j > i => gcalEvents[j].ID # id
NotCancelledInDelta(id) ==
  \A i \in DOMAIN gcalEvents : gcalEvents[i].ID = id => gcalEvents[i].Status # "cancelled"

\* C20: the step of handleDeletions for a row whose gcal_id the delta reports
\* as cancelled issues one UpdateIssue(yt_id, "", "", nil) and, unless a call
\* of the step failed and was logged, removes that row and no other; the
\* step for a row whose gcal_id the delta does not report as cancelled issues
\* no call and leaves sync_items as it is.
C20_CancelledEventClearsIssue ==
  [][pc = "handleDeletionsLoop"
       => LET item == allDbItems[idx]
          IN IF item.GCalID.Valid /\ CancelledInDelta(item.GCalID.String)
               THEN /\ IssuedCall
                    /\ LastCall.op = "UpdateIssue"
                    /\ LastCall.target = item.YTID.String
                    /\ LastCall.summary = << >>
                    /\ LastCall.description = << >>
                    /\ LastCall.start = << >>
                    /\ LoggedError \/ items' = items \ {item}
                    /\ items' \in {items, items \ {item}}
             ELSE IF ~item.GCalID.Valid \/ NotCancelledInDelta(item.GCalID.String)
               THEN ~IssuedCall /\ items' = items
             ELSE TRUE]_vars

\* the row of a cancelled event was removed and another row was kept
C20_Witness ==
  /\ \E k \in DOMAIN calls :
       /\ calls[k].phase = "handleDeletionsLoop"
       /\ calls[k].ok
       /\ allDbItems[calls[k].idx] \notin items
  /\ \E it \in items : it \in Range(allDbItems)

\* ==================================================== remote sides that echo
\* The calendar and the issue tracker as holders of state.  Each keeps, per
\* id, the item and the instant of its last change, and a feed of the ids
\* changed since the engine last fetched: every write, the engine's own
\* included, stamps the item with a later instant and puts it on the feed of
\* its side.  Nothing but the engine writes after the initial state; no call
\* fails.
MaxRuns == 3

GCalIDSeq == <<"g1", "g2">>
YTIDSeq == <<"y1", "y2">>

RemoteEvent(known, status, updated) == [known |-> known, status |-> status, updated |-> updated]
RemoteIssue(known, updated, due) == [known |-> known, updated |-> updated, due |-> due]
UnknownEvent == RemoteEvent(FALSE, "confirmed", 0)
UnknownIssue == RemoteIssue(FALSE, 0, << >>)

\* the effect of one call of the engine on the remote sides
ApplyCall(r, c) ==
  LET u == r.clock + 1
  IN IF ~c.ok THEN r
     ELSE IF c.op = "UpdateIssue"
       THEN [r EXCEPT !.clock = u,
                      !.issues[c.target] = RemoteIssue(TRUE, u, c.start),
                      !.itFeed = @ \cup {c.target}]
     ELSE IF c.op = "UpdateEvent"
       THEN [r EXCEPT !.clock = u,
                      !.events[c.target] = RemoteEvent(TRUE, @.status, u),
                      !.calFeed = @ \cup {c.target}]
     ELSE IF c.op = "DeleteEvent"
       THEN [r EXCEPT !.clock = u,
                      !.events[c.target] = RemoteEvent(TRUE, "cancelled", u),
                      !.calFeed = @ \cup {c.target}]
     ELSE IF c.op = "CreateIssue"
       THEN [r EXCEPT !.issues[c.ret[1]] = RemoteIssue(TRUE, c.ret[2], c.start),
                      !.itFeed = @ \cup {c.ret[1]}]
     ELSE [r EXCEPT !.events[c.ret[1]] = RemoteEvent(TRUE, "confirmed", ParseRFC3339(c.ret[2])),
                    !.calFeed = @ \cup {c.ret[1]}]

RECURSIVE ApplyCalls(_, _)
ApplyCalls(r, cs) ==
  IF cs = << >> THEN r ELSE ApplyCalls(ApplyCall(r, Head(cs)), Tail(cs))

\* what the two sides answer to a fetch: the items on the feed
EventFeed(r) ==
  LET ids == SelectSeq(GCalIDSeq, LAMBDA g : g \in r.calFeed)
  IN [i \in 1..Len(ids) |-> Event(ids[i], r.events[ids[i]].status, r.events[ids[i]].updated)]
IssueFeed(r) ==
  LET ids == SelectSeq(YTIDSeq, LAMBDA y : y \in r.itFeed)
  IN [i \in 1..Len(ids) |->
        Issue(ids[i], r.issues[ids[i]].updated,
              IF r.issues[ids[i]].due = << >> THEN << >>
              ELSE << CustomField("Due Date", Float64(r.issues[ids[i]].due[1])) >>)]

\* StartSyncLoop: the next call of Sync; by now the remote sides hold what
\* the run before wrote
SyncStartEcho ==
  /\ prev.n < MaxRuns
  /\ StartRun
  /\ prev' = [n |-> prev.n + 1,
              ok |-> IF prev.n = 0 THEN TRUE ELSE prev.ok /\ err = "nil" /\ failed = {}]
  /\ remote' = ApplyCalls(remote, calls)

\* Sync, lines 75-78, against the echoing calendar
FetchEventsEcho ==
  /\ pc = "fetchEvents"
  /\ gcalEvents' = EventFeed(remote)
  /\ newGCalSyncToken' = DefaultToken
  /\ remote' = [remote EXCEPT !.calFeed = {}]
  /\ pc' = "getUpdatedIssues"
  /\ UNCHANGED <<store, now, gcalSyncToken, ytLastSync, ytIssues, ytDeletedIssueIDs,
                 allDbItems, idx, err, budget, history, prev>>

\* Sync, lines 79-82, against the echoing issue tracker
GetUpdatedIssuesEcho ==
  /\ pc = "getUpdatedIssues"
  /\ ytIssues' = IssueFeed(remote)
  /\ remote' = [remote EXCEPT !.itFeed = {}]
  /\ pc' = "getDeletedIssueIDs"
  /\ UNCHANGED <<store, now, gcalSyncToken, ytLastSync, gcalEvents, newGCalSyncToken,
                 ytDeletedIssueIDs, allDbItems, idx, err, budget, history, prev>>

\* Sync, lines 83-86: no issue is deleted
GetDeletedIssueIDsEcho ==
  /\ pc = "getDeletedIssueIDs"
  /\ ytDeletedIssueIDs' = << >>
  /\ pc' = EnterGCalEvents(gcalEvents, ytIssues)
  /\ UNCHANGED <<store, now, gcalSyncToken, ytLastSync, gcalEvents, newGCalSyncToken,
                 ytIssues, allDbItems, idx, err, budget, history>>
  /\ UNCHANGED world

\* the store holds the pair (g1, y1); the remote sides hold that pair, each
\* item changed from outside since the last run or not, and perhaps a new
\* event g2
InitEcho ==
  /\ InitProgram({BoundStore}, 0)
  /\ budget = 0
  /\ prev = NoRun
  /\ \E ug, uy \in Instants, st \in {"confirmed", "cancelled"}, cf \in SUBSET {"g1", "g2"},
        itf \in SUBSET {"y1"} :
       remote = [held |-> TRUE,
                 clock |-> MaxInstant,
                 events |-> [g \in GCalIDs |->
                               IF g = "g1" THEN RemoteEvent(TRUE, st, ug)
                               ELSE IF g \in cf THEN RemoteEvent(TRUE, "confirmed", 1)
                               ELSE UnknownEvent],
                 issues |-> [y \in YTIDs |->
                               IF y = "y1" THEN RemoteIssue(TRUE, uy, <<20 * uy>>)
                               ELSE UnknownIssue],
                 calFeed |-> cf,
                 itFeed |-> itf]

NextEcho ==
  \/ SyncStartEcho
  \/ LoadCursors
  \/ FetchEventsEcho
  \/ GetUpdatedIssuesEcho
  \/ GetDeletedIssueIDsEcho
  \/ ProcessGCalEvent
  \/ ProcessYTIssue
  \/ HandleDeletions
  \/ HandleDeletionsItem
  \/ CommitCursors

SpecEcho == InitEcho /\ [][NextEcho]_vars

\* ---------------------------------------------------------------- C13
\* C13 as stated: a run that follows a run which both returned nil without a
\* logged error, nothing but the engine having written to either side since
\* the first of the two fetched, issues no remote call.
C13_NoWriteLoop ==
  pc = "idle" /\ err = "nil" /\ failed = {} /\ prev.n >= 3 /\ prev.ok => calls = << >>

\* ---------------------------------------------------------------- C21
\* C21: the step of processYTDeletions for an id whose sync item carries a
\* gcal_id issues one DeleteEvent for that gcal_id and, unless a call of the
\* step failed and was logged, removes that row and no other (a failed
\* lookup issues nothing); the step for an id without sync item issues no
\* call and leaves sync_items as it is.
C21_DeletedIssueDeletesEvent ==
  [][pc = "processYTDeletions"
       => LET syncItem == GetSyncItemByYTID(items, ytDeletedIssueIDs[idx])
          IN IF syncItem # {} /\ (\A it \in syncItem : it.GCalID.Valid)
               THEN \/ LookupFailed
                    \/ /\ IssuedCall
                       /\ LastCall.op = "DeleteEvent"
                       /\ \A it \in syncItem : LastCall.target = it.GCalID.String
                       /\ LoggedError \/ items' = items \ syncItem
                       /\ items' \in {items, items \ syncItem}
             ELSE ~IssuedCall /\ items' = items]_vars

\* the event of a deleted issue was deleted and its row removed
C21_Witness ==
  /\ pc = "idle"
  /\ err = "nil"
  /\ failed = {}
  /\ \E k \in DOMAIN calls :
       /\ calls[k].op = "DeleteEvent"
       /\ calls[k].ok
       /\ GetSyncItemByGCalID(itemsAtStart, calls[k].target) # {}
       /\ GetSyncItemByGCalID(items, calls[k].target) = {}

\* ---------------------------------------------------------------- C22
\* entry i of the delta is a cancelled event that has no sync item: none when
\* the run started, and the run bound none to its id (the delta does not
\* list the id as active, and CreateEvent did not return it)
UnboundCancelled(i) ==
  LET id == gcalEvents[i].ID
  IN /\ \A j \in DOMAIN gcalEvents : gcalEvents[j].ID = id => gcalEvents[j].Status = "cancelled"
     /\ GetSyncItemByGCalID(itemsAtStart, id) = {}
     /\ \A c \in Range(calls) : c.op = "CreateEvent" /\ c.ok => c.ret[1] # id

\* C22: in every state of a run, for a cancelled event of the delta without
\* sync item no call has been issued, neither by processGCalEvents for its
\* entry nor by handleDeletions for a row with its id, and sync_items holds
\* no row with its id.
C22_UnboundCancelledNoEffect ==
  \A i \in DOMAIN gcalEvents :
    UnboundCancelled(i)
      => /\ \A c \in Range(calls) :
              /\ c.phase = "processGCalEvents" => gcalEvents[c.idx].ID # gcalEvents[i].ID
              /\ c.phase = "handleDeletionsLoop"
                   => allDbItems[c.idx].GCalID # NullString(gcalEvents[i].ID)
         /\ GetSyncItemByGCalID(items, gcalEvents[i].ID) = {}

\* a run over a table with rows processed such an event and returned nil
C22_Witness ==
  /\ pc = "idle"
  /\ err = "nil"
  /\ \E i \in DOMAIN gcalEvents : UnboundCancelled(i)
  /\ allDbItems # << >>
  /\ <<"processGCalEvents", 1>> \in visited

\* ---------------------------------------------------------------- C23
\* C23: the step of processYTissues for an issue that has no sync item and no
\* numeric "Due Date" custom field issues no call and leaves sync_items as
\* it is.
C23_UndatedIssueCreatesNothing ==
  [][IssueStep /\ IssueBinding = {} /\ NumericDueDates(CurrentIssue) = {}
       => ~IssuedCall /\ items' = items]_vars

\* an issue whose Due Date is not a number was processed without error
C23_Witness ==
  /\ pc = "idle"
  /\ err = "nil"
  /\ failed = {}
  /\ \E i \in DOMAIN ytIssues :
       /\ GetSyncItemByYTID(itemsAtStart, ytIssues[i].ID) = {}
       /\ \E k \in DOMAIN ytIssues[i].CustomFields :
            /\ ytIssues[i].CustomFields[k].Name = "Due Date"
            /\ ytIssues[i].CustomFields[k].Value.type # "float64"
       /\ <<"processYTissues", i>> \in visited

\* ---------------------------------------------------------------- C24
\* the position of the run: 0 while loading and fetching, then the rank of
\* the phase, and 7 once the run has returned nil
Position ==
  IF pc = "idle" THEN (IF err = "nil" THEN 7 ELSE IF err = "failed to get all sync items" THEN 3 ELSE 0)
  ELSE PhaseRank(pc)

\* C24: in every state of a run the calls are listed in the order of the
\* phases (and of the items within a phase); while the cursors are loaded
\* and the deltas fetched nothing has been called or written; and while the
\* run is in a phase, every iteration of the earlier phases has been
\* executed and none of a later phase, so that every call and store write of
\* a phase precedes every one of the next.
C24_PhasesStrictlyOrdered ==
  /\ \A j, k \in DOMAIN calls :
       j < k => \/ PhaseRank(calls[j].phase) < PhaseRank(calls[k].phase)
                \/ calls[j].phase = calls[k].phase /\ calls[j].idx <= calls[k].idx
  /\ \A c \in Range(calls) : c.phase \in ItemPhases
  /\ Position = 0 /\ err # "none" => calls = << >> /\ visited = {} /\ items = itemsAtStart
  /\ pc \in {"loadCursors", "fetchEvents", "getUpdatedIssues", "getDeletedIssueIDs"}
       => calls = << >> /\ visited = {} /\ items = itemsAtStart
  /\ Position > 0
       => \A q \in ItemPhases :
            /\ PhaseRank(q) < Position => Iterations(q, PhaseList(q)) \subseteq visited
            /\ PhaseRank(q) > Position => \A v \in visited : v[1] # q

\* a run went through three loops and issued calls in two of them
C24_Witness ==
  /\ pc = "idle"
  /\ err = "nil"
  /\ Cardinality({calls[k].phase : k \in DOMAIN calls}) >= 2
  /\ Cardinality({v[1] : v \in visited}) >= 3

\* ---------------------------------------------------------------- C25
\* C25: in every reachable state every row of sync_items has a gcal_id or a
\* yt_id that is not NULL.
C25_BindingHasAnId ==
  \A it \in items : it.GCalID.Valid \/ it.YTID.Valid

\* a run has inserted a row
C25_Witness ==
  \E it \in items : \A o \in itemsAtStart : o.ID # it.ID

\* ================================================== the store called directly
\* The methods of DB called one at a time by a client of the package (the
\* engine, the tests), without I/O failure.  Table sync_items here, table
\* last_sync below: no statement of db.go touches both.  prev records the
\* last call: the method, its argument, whether it returned a nil error.
MaxRows == MaxEvents

\* the rows a caller passes: one id or both, the timestamp of a side set
\* when its id is
DBItemSet ==
  {SyncItem(0, g, y,
            IF g.Valid THEN NullTime(1) ELSE NoTime,
            IF y.Valid THEN NullTime(1) ELSE NoTime) :
     g \in {NoString} \cup {NullString(id) : id \in GCalIDs},
     y \in {NoString} \cup {NullString(id) : id \in YTIDs}} \ {SyncItem(0, NoString, NoString, NoTime, NoTime)}

DBCall(op, item, ok) == [n |-> 1, op |-> op, item |-> item, ok |-> ok]

rest == <<now, pc, locals, err, history, budget, remote>>

\* db.CreateSyncItem(item)
CallCreateSyncItem ==
  /\ nextID <= MaxRows
  /\ \E item \in DBItemSet :
       IF CreateSyncItemOK(items, item)
         THEN /\ items' = CreateSyncItem(items, nextID, item)
              /\ nextID' = nextID + 1
              /\ prev' = DBCall("CreateSyncItem", item, TRUE)
         ELSE /\ prev' = DBCall("CreateSyncItem", item, FALSE)
              /\ UNCHANGED <<items, nextID>>
  /\ UNCHANGED <<lastSync, rest>>

\* db.UpdateSyncItem(item)
CallUpdateSyncItem ==
  /\ \E it \in DBItemSet, id \in 1..MaxRows + 1 :
       LET item == [it EXCEPT !.ID = id]
       IN IF UpdateSyncItemOK(items, item)
            THEN /\ items' = UpdateSyncItem(items, item)
                 /\ prev' = DBCall("UpdateSyncItem", item, TRUE)
          ELSE /\ prev' = DBCall("UpdateSyncItem", item, FALSE)
               /\ UNCHANGED items
  /\ UNCHANGED <<nextID, lastSync, rest>>

\* db.DeleteSyncItem(id)
CallDeleteSyncItem ==
  /\ \E id \in 1..MaxRows + 1 :
       /\ items' = DeleteSyncItem(items, id)
       /\ prev' = DBCall("DeleteSyncItem", [ID |-> id], TRUE)
  /\ UNCHANGED <<nextID, lastSync, rest>>

InitSyncItems ==
  /\ InitProgram({FreshStore}, 0)
  /\ budget = 0
  /\ prev = NoRun
  /\ remote = NoRemote

NextSyncItems ==
  \/ CallCreateSyncItem
  \/ CallUpdateSyncItem
  \/ CallDeleteSyncItem

SpecSyncItems == InitSyncItems /\ [][NextSyncItems]_vars

\* ---------------------------------------------------------------- C28
\* a row of the table carries the gcal_id or the yt_id of the item
IdAlreadyBound(tbl, item) ==
  \E o \in tbl : \/ item.GCalID.Valid /\ o.GCalID = item.GCalID
                 \/ item.YTID.Valid /\ o.YTID = item.YTID

\* C28: a call of CreateSyncItem with an item whose gcal_id or yt_id a row
\* already carries returns an error and leaves sync_items as it is.
C28_CreateConflictRejected ==
  [][prev'.op = "CreateSyncItem" /\ IdAlreadyBound(items, prev'.item)
       => ~prev'.ok /\ items' = items /\ nextID' = nextID]_vars

\* an insert was rejected while the table held a row
C28_Witness ==
  /\ prev.n = 1
  /\ prev.op = "CreateSyncItem"
  /\ ~prev.ok
  /\ IdAlreadyBound(items, prev.item)

\* ---------------------------------------------------------------- C29
\* C29 as stated: a call of UpdateSyncItem with an id no row has returns an
\* error and leaves sync_items as it is.
C29_UpdateUnknownIdNotFound ==
  [][prev'.op = "UpdateSyncItem" /\ (\A o \in items : o.ID # prev'.item.ID)
       => ~prev'.ok /\ items' = items]_vars

\* ------------------------------------------------- table last_sync, directly
\* The four cursor methods called one at a time.  prev records the last call
\* (method, nil error or not, the token and the instant passed or returned)
\* and what the setters were last given: tokenSet and timeSet are << >> until
\* the setter of the slot is called, nonEmptySet says that SetGCalSyncToken
\* was called with a non-empty token.
CursorCall(op, ok, token, t, tokenSet, timeSet, nonEmptySet) ==
  [n |-> 1, op |-> op, ok |-> ok, token |-> token, time |-> t,
   tokenSet |-> tokenSet, timeSet |-> timeSet, nonEmptySet |-> nonEmptySet]

\* db.SetGCalSyncToken(token)
CallSetGCalSyncToken ==
  /\ \E token \in Tokens \cup {"", "test-token"} :
       /\ lastSync' = SetGCalSyncToken(lastSync, token)
       /\ prev' = CursorCall("SetGCalSyncToken", TRUE, token, ZeroTime, <<token>>,
                             prev.timeSet, prev.nonEmptySet \/ token # "")
  /\ UNCHANGED <<items, nextID, rest>>

\* db.SetYTLastSync(t)
CallSetYTLastSync ==
  /\ \E t \in 0..MaxInstant :
       /\ lastSync' = SetYTLastSync(lastSync, t)
       /\ prev' = CursorCall("SetYTLastSync", TRUE, "", t, prev.tokenSet, <<t>>,
                             prev.nonEmptySet)
  /\ UNCHANGED <<items, nextID, rest>>

\* db.GetGCalSyncToken()
CallGetGCalSyncToken ==
  /\ prev' = IF GetGCalSyncTokenOK(lastSync)
               THEN CursorCall("GetGCalSyncToken", TRUE, GetGCalSyncToken(lastSync),
                               ZeroTime, prev.tokenSet, prev.timeSet, prev.nonEmptySet)
               ELSE CursorCall("GetGCalSyncToken", FALSE, "", ZeroTime,
                               prev.tokenSet, prev.timeSet, prev.nonEmptySet)
  /\ UNCHANGED <<store, rest>>

\* db.GetYTLastSync()
CallGetYTLastSync ==
  /\ prev' = IF GetYTLastSyncOK(lastSync)
               THEN CursorCall("GetYTLastSync", TRUE, "", GetYTLastSync(lastSync),
                               prev.tokenSet, prev.timeSet, prev.nonEmptySet)
               ELSE CursorCall("GetYTLastSync", FALSE, "", ZeroTime,
                               prev.tokenSet, prev.timeSet, prev.nonEmptySet)
  /\ UNCHANGED <<store, rest>>

InitLastSync ==
  /\ InitProgram({FreshStore}, 0)
  /\ budget = 0
  /\ prev = CursorCall("NewDB", TRUE, "", ZeroTime, << >>, << >>, FALSE)
  /\ remote = NoRemote

NextLastSync ==
  \/ CallSetGCalSyncToken
  \/ CallSetYTLastSync
  \/ CallGetGCalSyncToken
  \/ CallGetYTLastSync

SpecLastSync == InitLastSync /\ [][NextLastSync]_vars

\* ---------------------------------------------------------------- C26
\* C26 as stated: as long as SetGCalSyncToken was never called with a
\* non-empty token, GetGCalSyncToken returns "" and a nil error, also after
\* SetYTLastSync has created the row.
C26_TokenReadableBeforeFirstSet ==
  [][prev'.op = "GetGCalSyncToken" /\ ~prev.nonEmptySet
       => prev'.ok /\ prev'.token = ""]_vars

\* ---------------------------------------------------------------- C27
\* C27 as stated: SetGCalSyncToken leaves the stored watermark as it is,
\* SetYTLastSync leaves the stored token as it is, and once a slot was set
\* its getter returns the value last set for it.
C27_CursorSlotsIndependent ==
  [][/\ prev'.op = "SetGCalSyncToken" => StoredWatermark(lastSync') = StoredWatermark(lastSync)
     /\ prev'.op = "SetYTLastSync" => StoredToken(lastSync') = StoredToken(lastSync)
     /\ prev'.op = "GetGCalSyncToken" /\ prev.tokenSet # << >>
          => prev'.ok /\ prev'.token = prev.tokenSet[1]
     /\ prev'.op = "GetYTLastSync" /\ prev.timeSet # << >>
          => prev'.ok /\ prev'.time = prev.timeSet[1]]_vars

\* ---------------------------------------------------------------- C30
\* the rows of tbl other than the one with the id of b
Others(tbl, b) == {o \in tbl : o.ID # b.ID}

\* C30: the iteration for an event whose sync item exists leaves the item's
\* id, gcal_id, yt_id and yt_updated_at as they were, the iteration for an
\* issue whose sync item exists leaves id, gcal_id, yt_id and gcal_updated_at
\* as they were, and neither touches another row.
C30_UpdateChangesOnlyItsTimestamp ==
  [][ /\ (ActiveEventStep /\ EventBinding # {})
        => \A b \in EventBinding :
             /\ \E n \in items' : /\ n.ID = b.ID
                                  /\ n.GCalID = b.GCalID
                                  /\ n.YTID = b.YTID
                                  /\ n.YTUpdatedAt = b.YTUpdatedAt
             /\ Others(items', b) = Others(items, b)
      /\ (IssueStep /\ IssueBinding # {})
        => \A b \in IssueBinding :
             /\ \E n \in items' : /\ n.ID = b.ID
                                  /\ n.GCalID = b.GCalID
                                  /\ n.YTID = b.YTID
                                  /\ n.GCalUpdatedAt = b.GCalUpdatedAt
             /\ Others(items', b) = Others(items, b) ]_vars

\* one run has updated a row from the calendar side and from the tracker side
C30_Witness ==
  \E a \in itemsAtStart : \E b \in items :
    /\ a.ID = b.ID
    /\ b.GCalUpdatedAt.Time > a.GCalUpdatedAt.Time
    /\ b.YTUpdatedAt.Time > a.YTUpdatedAt.Time
    /\ a.YTUpdatedAt.Valid

\* ---------------------------------------------------------------- C31
\* C31: a call of DeleteSyncItem with an id no row has returns a nil error and
\* leaves sync_items as it is, and after any call of DeleteSyncItem a second
\* call with the same id changes nothing.
C31_DeleteIdempotent ==
  [][prev'.op = "DeleteSyncItem"
       => /\ prev'.ok
          /\ (\A o \in items : o.ID # prev'.item.ID) => items' = items /\ nextID' = nextID
          /\ DeleteSyncItem(items', prev'.item.ID) = items']_vars

\* an id that was never assigned was deleted while rows are stored
C31_Witness ==
  /\ prev.n = 1
  /\ prev.op = "DeleteSyncItem"
  /\ prev.ok
  /\ prev.item.ID >= nextID
  /\ items # {}

\* ---------------------------------------------------------------- C32
\* the rows the two getters return for the populated ids of item
Retrieved(tbl, item) ==
  (IF item.GCalID.Valid THEN {GetSyncItemByGCalID(tbl, item.GCalID.String)} ELSE {})
    \cup (IF item.YTID.Valid THEN {GetSyncItemByYTID(tbl, item.YTID.String)} ELSE {})

\* C32: after CreateSyncItem returned id n the getters, asked for the item's
\* populated ids, return the item with ID n; after an UpdateSyncItem of a
\* stored row they return the item as passed; after DeleteSyncItem(n) they
\* return nil for the ids the row n carried.
C32_StoreRoundTrip ==
  [][ /\ prev'.op = "CreateSyncItem" /\ prev'.ok
        => Retrieved(items', prev'.item) = {{[prev'.item EXCEPT !.ID = nextID]}}
      /\ prev'.op = "UpdateSyncItem" /\ prev'.ok /\ (\E o \in items : o.ID = prev'.item.ID)
        => Retrieved(items', prev'.item) = {{prev'.item}}
      /\ prev'.op = "DeleteSyncItem"
        => \A o \in items : o.ID = prev'.item.ID => Retrieved(items', o) = {{}} ]_vars

\* the one row that was created has been deleted
C32_Witness ==
  /\ prev.n = 1
  /\ prev.op = "DeleteSyncItem"
  /\ prev.item.ID < nextID
  /\ items = {}
  /\ nextID = 2

\* ================================================ the whole-day event written
\* The request CreateEvent and UpdateEvent of the calendar client build from
\* the two instants processYTissues passes for a due date.  Instants are
\* hours; a date is the number of its day; the process runs in a zone without
\* a clock change in the days explored.
MaxDays == 3
Day == 24 * Hour
DueInstants == 0..(MaxDays * Day - 1)

\* t.Format("2006-01-02")
FormatDate(t) == t \div Day
\* t.AddDate(years, months, days), for whole days
AddDate(t, years, months, days) == t + days * Day

\* calendar.Event{Start: {Date: ...}, End: {Date: ...}} of CreateEvent and UpdateEvent
EventDates(start, end) ==
  [Start |-> FormatDate(start), End |-> FormatDate(AddDate(end, 0, 0, 1))]

DateCall(op, due, dates) == [n |-> 1, op |-> op, due |-> due, dates |-> dates]

\* processYTissues, line 181: CreateEvent(..., dueDate, dueDate.Add(time.Hour))
WriteCreateEvent ==
  /\ prev.n = 0
  /\ prev' = DateCall("CreateEvent", prev.due, EventDates(prev.due, Add(prev.due, Hour)))
  /\ UNCHANGED <<store, rest>>

\* processYTissues, line 202: UpdateEvent(..., dueDate, dueDate.Add(time.Hour))
WriteUpdateEvent ==
  /\ prev.n = 0
  /\ prev' = DateCall("UpdateEvent", prev.due, EventDates(prev.due, Add(prev.due, Hour)))
  /\ UNCHANGED <<store, rest>>

InitDates ==
  /\ InitProgram({FreshStore}, 0)
  /\ budget = 0
  /\ \E due \in DueInstants : prev = [n |-> 0, due |-> due]
  /\ remote = NoRemote

NextDates ==
  \/ WriteCreateEvent
  \/ WriteUpdateEvent

SpecDates == InitDates /\ [][NextDates]_vars

\* ---------------------------------------------------------------- C33
\* C33 as stated: for every due instant, the event written by CreateEvent or
\* UpdateEvent starts on the day of the due instant and ends, exclusively, on
\* the day after.
C33_WholeDayEvent ==
  prev.n = 1 => /\ prev.dates.Start = FormatDate(prev.due)
                /\ prev.dates.End = prev.dates.Start + 1

\* ============================================== the request of UpdateIssue
\* The body UpdateIssue posts and what the tracker holds afterwards.  The
\* tracker sets the attributes the body names and keeps the others; the
\* custom field entry of the body carries a $type and a value but no name,
\* so the tracker either takes it for the due date or does not apply it.
IssueTexts == {<< >>, <<"text">>}
DuePointers == {<< >>} \cup {<<t>> : t \in Instants}
TrackedIssue(summary, description, due) ==
  [summary |-> summary, description |-> description, due |-> due]
TrackedIssues ==
  {TrackedIssue(s, <<"text">>, d) : s \in IssueTexts, d \in DuePointers}

\* updates := map[string]interface{}{...}, lines 89-101: the keys of the body
UpdateIssueBody(summary, description, dueDate) ==
  [summary |-> <<summary>>, description |-> <<description>>,
   customFields |-> IF dueDate # << >>
                      THEN << [type |-> "DateIssueCustomField", value |-> UnixMilli(dueDate[1])] >>
                      ELSE << >>]

\* the issue after the tracker has applied the body
Applied(issue, body, named) ==
  [summary |-> body.summary[1],
   description |-> body.description[1],
   due |-> IF body.customFields # << >> /\ named
             THEN <<body.customFields[1].value>>
             ELSE issue.due]

\* client.UpdateIssue(issueID, summary, description, dueDate), answered 200
SendUpdateIssue ==
  /\ prev.n = 0
  /\ \E named \in BOOLEAN :
       /\ named \/ prev.dueDate # << >>
       /\ prev' = [prev EXCEPT !.n = 1,
                               !.issue = Applied(@, UpdateIssueBody(prev.summary, prev.description,
                                                                    prev.dueDate), named)]
  /\ UNCHANGED <<store, rest>>

InitIssueUpdate ==
  /\ InitProgram({FreshStore}, 0)
  /\ budget = 0
  /\ \E issue \in TrackedIssues, s \in IssueTexts, d \in IssueTexts, due \in DuePointers :
       prev = [n |-> 0, issue |-> issue, before |-> issue,
               summary |-> s, description |-> d, dueDate |-> due]
  /\ remote = NoRemote

NextIssueUpdate == SendUpdateIssue

SpecIssueUpdate == InitIssueUpdate /\ [][NextIssueUpdate]_vars

\* ---------------------------------------------------------------- C34
\* C34 as stated: after UpdateIssue was called with a nil due date and
\* answered without error, the issue has no due date.
C34_AbsentDueClears ==
  prev.n = 1 /\ prev.dueDate = << >> => prev.issue.due = << >>

\* ===================================================== FetchEvents, page by page
\* One call of Client.FetchEvents against a calendar server that answers each
\* Events.List request with a page, with 410 or with another error.  prev is
\* the frame of the call (its syncToken argument, pageToken as the number of
\* pages read, simplifiedEvents) and, once it returned, its three results.
\* remote is the server: the items of the listing it is serving (a request
\* without page token starts a new listing), the sync token it closed the
\* listing with, how many times it answered 410, whether an attempt that had
\* already read items was abandoned.
MaxPages == 2
MaxGone == 2
PageItems == {<< >>, <<"g1">>, <<"g2">>}

\* the run of the engine, which a call of the client made on its own leaves alone
engine == <<now, pc, locals, err, history, budget>>

\* the frame of a new call of FetchEvents: var simplifiedEvents, pageToken := ""
Frame(syncToken, gone) ==
  [n |-> 1, state |-> "list", syncToken |-> syncToken, pageToken |-> 0,
   simplifiedEvents |-> << >>, events |-> << >>, token |-> "", err |-> "none",
   retried |-> gone]
\* a retry that goes on appending to the events read so far
Retry_KeepEvents(frame) ==
  [frame EXCEPT !.syncToken = "", !.pageToken = 0, !.retried = TRUE]
\* return c.FetchEvents(calendarID, ""): a new frame, whose result is the result
Retry(frame) == Frame("", TRUE)

FetchReturn(frame, events, token, e) ==
  [frame EXCEPT !.state = "returned", !.events = events, !.token = token, !.err = e]

\* the listing the server is serving, after this request
Listing(page) == (IF prev.pageToken = 0 THEN << >> ELSE remote.listing) \o page

\* eventsCall.Do() answers a page; lines 72-99
FetchPage ==
  /\ prev.state = "list"
  /\ \E page \in PageItems, more \in BOOLEAN, tok \in Tokens \cup {""} :
       /\ more => prev.pageToken + 1 < MaxPages /\ tok = ""
       /\ remote' = [remote EXCEPT !.listing = Listing(page), !.nextSyncToken = tok,
                                   !.last = "page"]
       /\ prev' = IF more
                    THEN [prev EXCEPT !.pageToken = @ + 1,
                                      !.simplifiedEvents = @ \o page]
                    ELSE FetchReturn(prev, prev.simplifiedEvents \o page, tok, "nil")
  /\ UNCHANGED <<store, engine>>

\* eventsCall.Do() answers 410; lines 66-69
FetchGone ==
  /\ prev.state = "list"
  /\ remote.gone < MaxGone
  /\ remote' = [remote EXCEPT !.gone = @ + 1, !.last = "gone",
                              !.emptyTokenGone = @ \/ prev.syncToken = "",
                              !.abandoned = @ \/ prev.simplifiedEvents # << >>]
  /\ prev' = Retry(prev)
  /\ UNCHANGED <<store, engine>>

\* eventsCall.Do() answers another error; line 70
FetchFailed ==
  /\ prev.state = "list"
  /\ remote' = [remote EXCEPT !.last = "error"]
  /\ prev' = FetchReturn(prev, << >>, "", "unable to retrieve events from calendar")
  /\ UNCHANGED <<store, engine>>

InitFetch ==
  /\ InitProgram({FreshStore}, 0)
  /\ budget = 0
  /\ \E syncToken \in Tokens \cup {""} : prev = Frame(syncToken, FALSE)
  /\ remote = [held |-> FALSE, listing |-> << >>, nextSyncToken |-> "", gone |-> 0,
               last |-> "none", emptyTokenGone |-> FALSE, abandoned |-> FALSE]

NextFetch ==
  \/ FetchPage
  \/ FetchGone
  \/ FetchFailed

SpecFetch == InitFetch /\ [][NextFetch]_vars

\* ---------------------------------------------------------------- C35
\* C35: a call of FetchEvents that was answered 410 goes on with the empty
\* sync token; when it returns without error it returns the items of the
\* listing the server served last, none of an abandoned attempt, and the sync
\* token that listing ended with; it returns an error only for an answer
\* that is an error other than 410.
C35_GoneRetriesFullSync ==
  /\ remote.gone > 0 /\ prev.state = "list" => prev.syncToken = ""
  /\ prev.state = "returned" /\ prev.err = "nil"
       => prev.events = remote.listing /\ prev.token = remote.nextSyncToken
  /\ prev.state = "returned" /\ prev.err # "nil" => remote.last = "error"

\* the call returned the full sync after an attempt that had read items was
\* answered 410
C35_Witness ==
  /\ prev.state = "returned"
  /\ prev.err = "nil"
  /\ remote.gone = 1
  /\ remote.abandoned
  /\ prev.events # << >>
  /\ prev.token # ""

\* ---------------------------------------------------------------- C40
\* C40 as stated: when the server answers 410 to a request made with the
\* empty sync token, FetchEvents returns an error.
C40_GoneOnEmptyTokenIsError ==
  [][prev.state = "list" /\ prev.syncToken = "" /\ remote'.last = "gone"
       => prev'.state = "returned" /\ prev'.err # "nil"]_vars

\* ============================================================ the scheduler
\* main and StartSyncLoop: one goroutine calls Sync once, then once for every
\* tick it receives.  remote is the ticker: its channel holds at most one
\* tick, a tick that finds the channel full is dropped.  prev is the
\* goroutine: where it is, how many calls of Sync it has made, how many are
\* in progress, what the last call returned and how many calls failed.
SyncResults == {"nil"} \cup CursorReadErrors \cup FetchErrors \cup {ListAllError}

\* a loop that ends when Sync returns an error
AfterSync_ReturnOnError(e) == IF e = "nil" THEN "range" ELSE "stopped"
\* lines 272-276 and main 67-71: the error is logged and the loop goes on
AfterSync(e) == "range"

\* the runtime sends a tick; the ticker is made when the initial call returned
TickerFires ==
  /\ prev.at = "range" \/ prev.n > 1
  /\ remote.pending = 0
  /\ remote' = [remote EXCEPT !.pending = 1]
  /\ UNCHANGED <<store, engine, prev>>

\* main, line 67: the initial call of Sync, then StartSyncLoop makes the ticker
InitialSync ==
  /\ prev.at = "main"
  /\ prev' = [prev EXCEPT !.at = "Sync", !.n = 1, !.inProgress = @ + 1]
  /\ UNCHANGED <<store, engine, remote>>

\* for range ticker.C: a tick is received and Sync is called
LoopReceive ==
  /\ prev.at = "range"
  /\ remote.pending = 1
  /\ prev.n < MaxRuns
  /\ remote' = [remote EXCEPT !.pending = 0]
  /\ prev' = [prev EXCEPT !.at = "Sync", !.n = @ + 1, !.inProgress = @ + 1]
  /\ UNCHANGED <<store, engine>>

\* Sync returns, with an error or without
SyncReturns ==
  /\ prev.at = "Sync"
  /\ \E e \in SyncResults :
       prev' = [prev EXCEPT !.at = AfterSync(e), !.inProgress = @ - 1, !.err = e,
                            !.failures = IF e = "nil" THEN @ ELSE @ + 1]
  /\ UNCHANGED <<store, engine, remote>>

InitLoop ==
  /\ InitProgram({FreshStore}, 0)
  /\ budget = 0
  /\ prev = [n |-> 0, at |-> "main", inProgress |-> 0, err |-> "none", failures |-> 0]
  /\ remote = [held |-> FALSE, pending |-> 0]

NextLoop ==
  \/ TickerFires
  \/ InitialSync
  \/ LoopReceive
  \/ SyncReturns

SpecLoop == InitLoop /\ [][NextLoop]_vars

\* ---------------------------------------------------------------- C36
\* C36: at most one call of Sync is in progress, and when a call of Sync has
\* failed and a tick is waiting the loop takes the tick and calls Sync again.
C36_LoopGoesOnOneAtATime ==
  /\ prev.inProgress <= 1
  /\ prev.err # "nil" /\ prev.inProgress = 0 /\ prev.failures > 0
       /\ remote.pending = 1 /\ prev.n < MaxRuns
       => ENABLED LoopReceive

\* a call of Sync is in progress that was started after two calls had failed
C36_Witness ==
  /\ prev.at = "Sync"
  /\ prev.failures = 2
  /\ prev.err # "nil"
  /\ prev.n = 3

\* ================================================ an issue updated from outside
\* The engine of Spec with a tracker in which somebody updates the issue y1
\* once, at any moment of any run or between runs.  remote records the
\* instant of that update and whether a call of GetUpdatedIssues has listed
\* the issue since; the tracker lists an issue whose updated instant is not
\* before the since argument.
Tracker(update, observed) == [held |-> TRUE, update |-> update, observed |-> observed]

\* somebody edits y1
ExternalUpdate ==
  /\ remote.update = << >>
  /\ remote' = Tracker(<<now>>, FALSE)
  /\ UNCHANGED <<store, engine, prev>>

\* the answer of the tracker to updated: since .. {now}
UpdatedSince(since) ==
  IF remote.update # << >> /\ remote.update[1] >= since
    THEN << Issue("y1", remote.update[1], << >>) >>
    ELSE << >>

\* Sync, lines 79-82, against that tracker
GetUpdatedIssuesTracked ==
  /\ pc = "getUpdatedIssues"
  /\ \/ /\ Inject(<<FALSE>>)
        /\ Return("failed to fetch YouTrack issues")
        /\ UNCHANGED <<ytIssues, remote>>
     \/ /\ ytIssues' = UpdatedSince(ytLastSync)
        /\ remote' = [remote EXCEPT !.observed = @ \/ UpdatedSince(ytLastSync) # << >>]
        /\ pc' = "getDeletedIssueIDs"
        /\ UNCHANGED <<err, budget>>
  /\ UNCHANGED <<store, now, gcalSyncToken, ytLastSync, gcalEvents, newGCalSyncToken,
                 ytDeletedIssueIDs, allDbItems, idx, history, prev>>

InitTracker ==
  /\ InitProgram({FreshStore, BoundStore}, 0)
  /\ budget = MaxEvents
  /\ prev = NoRun
  /\ remote = Tracker(<< >>, FALSE)

NextTracker ==
  \/ Tick
  \/ ExternalUpdate
  \/ SyncStart
  \/ LoadCursors
  \/ FetchEvents
  \/ GetUpdatedIssuesTracked
  \/ GetDeletedIssueIDs
  \/ ProcessGCalEvent
  \/ ProcessYTIssue
  \/ HandleDeletions
  \/ HandleDeletionsItem
  \/ ProcessYTDeletion
  \/ CommitCursors

SpecTracker == InitTracker /\ [][NextTracker]_vars

\* ---------------------------------------------------------------- C37
\* C37 as stated, as the safety property it needs: between runs, an update
\* no call of GetUpdatedIssues has listed is not before the stored watermark,
\* which is the since argument of the next run.
C37_NoLostUpdate ==
  pc = "idle" /\ remote.update # << >> /\ ~remote.observed
    => \/ ~StoredWatermark(lastSync).Valid
       \/ StoredWatermark(lastSync).Time <= remote.update[1]

\* ---------------------------------------------------------------- C38
\* C38 as stated: no CreateEvent and no UpdateEvent is issued with the zero
\* time as start.
C38_NoZeroStartWritten ==
  \A i \in DOMAIN calls :
    calls[i].op \in {"CreateEvent", "UpdateEvent"} => ~IsZero(calls[i].start[1])

\* ---------------------------------------------------------------- C39
\* C39 as stated: a run issues no UpdateEvent for an event its calendar delta
\* reports as cancelled.
C39_NoUpdateOfCancelledEvent ==
  \A i \in DOMAIN calls :
    calls[i].op = "UpdateEvent" => ~CancelledInDelta(calls[i].target)

====
